---- MODULE Spec2Model ----
(***************************************************************************)
(* Verification model of the chart capture / extraction / export pipeline  *)
(* of the printCustomized widget (chart-print-service.ts and its modular   *)
(* split cache.ts / capture.ts / widget-utils.ts).                         *)
(*                                                                         *)
(* Four specifications share this module:                                  *)
(*   Spec        - the cache layer, the widget locator and the capture     *)
(*                 engine (element cache, capture cache, canvas pool)      *)
(*   SpecMulti   - the same calls over all chart identifiers, at one       *)
(*                 instant of the clock                                    *)
(*   SpecExtract - the data extractor (query engine, DOM parsing, report)  *)
(*   SpecPdf     - the professional PDF composer (progress, timeout)       *)
(***************************************************************************)
EXTENDS Integers, Sequences, FiniteSets, TLC

(***************************************************************************)
(* Bounds of the model                                                     *)
(***************************************************************************)
MaxTicks == 2
MaxGen == 1
MaxSerial == 2
MaxRecords == 2
MaxLegend == 2
MaxCharts == 3
MaxItems == 7
MaxColumns == 4
MaxHeld == 4
MaxPrints == 2
MaxExtra == 3
MaxLoopItems == 17

(***************************************************************************)
(* Program constants                                                       *)
(***************************************************************************)
ELEMENT_CACHE_TTL == 30000
CAPTURE_CACHE_TTL == 5000
MAX_POOL_SIZE == 3

\* the two implementations of the cache/capture layer in the repository
Impls == {"service", "modular"}

\* chart identifiers handed to the public functions
Ids == {"w1", "w2", "w3"}

\* identifiers used by the specification that lets the clock advance
TimedIds == {"w1", "w3"}

\* identifiers whose widget container the host may mount in the document
Mountable == {"w1", "w2"}

\* host widget registry (appConfig.widgets): w1, w2 are chart widgets, w3 is
\* not registered
WidgetRegistry == [w \in Ids |-> IF w \in {"w1", "w2"} THEN "chart" ELSE "none"]

\* capture options: the 1200x800 capture of the professional layout and a
\* caller supplied size
OptionSet == {"1200x800", "400x300"}

\* amounts by which Date.now() advances between two steps
TickSteps == {1, 4999, 30000}

\* concurrent captureChartAsImage calls (async functions in flight)
Slots == {1}

\* the calls of captureChartAsImage that the interleaving specification lets
\* be in flight together
CallSlots == {1, 2}

\* both registered chart identifiers
ChartIds == {"w1", "w2"}

VARIABLES
  impl,              \* which implementation this behaviour exercises
  now,               \* Date.now()
  ticks,             \* number of clock advances so far
  dom,               \* dom[w]: generation of the mounted container of w, 0 = none
  domGen,            \* domGen[w]: number of containers created for w so far
  chartElementCache, \* Map<string, {element, timestamp}>
  captureCache,      \* Map<string, {result, timestamp}>
  canvasPool,        \* HTMLCanvasElement[]
  calls,             \* in-flight captureChartAsImage calls
  nextSerial,        \* serial of the next rasterized image (its dataUrl)
  lastOp,            \* the operation performed by the last step and its outcome
  refElementCache,   \* element cache of the reference run that never sweeps
  refCaptureCache,   \* capture cache of the reference run that never sweeps
  ext,               \* the extractChartDataComplete call in progress
  pdf,               \* the PDF export in progress
  doc,               \* the call of a legend, complete or multi-chart composer
  layout,            \* the legend loop of the professional layout
  held,              \* canvases handed out by the pool and not in it
  print,             \* the printChartOnly call in progress
  validation,        \* the last validateChartPrintOptions call
  template,          \* the last addChartToTemplate call
  loop               \* the item loop of a composer that is running

cacheVars == <<impl, now, ticks, dom, domGen, chartElementCache,
               captureCache, canvasPool, calls, nextSerial, lastOp,
               refElementCache, refCaptureCache>>

\* the state of the other composers, of the legend loop, of the users of the
\* canvas pool and of printChartOnly
\* the calls of the pure functions and the item loop
pureVars == <<validation, template, loop>>

auxVars == <<doc, layout, held, print, pureVars>>

vars == <<cacheVars, ext, pdf, auxVars>>

(***************************************************************************)
(* Values                                                                  *)
(***************************************************************************)
\* absent map entry (Map.get returns undefined)
NoElementEntry == [g |-> 0, timestamp |-> 0]

NoResult == [success |-> FALSE, dataUrl |-> 0, options |-> "", error |-> "",
             defined |-> FALSE]

NoCaptureEntry == [result |-> NoResult, timestamp |-> 0]

\* a thrown value: an Error carries a message, anything else does not
NoThrow == [thrown |-> FALSE, isError |-> FALSE, message |-> ""]

Throwables == {[thrown |-> TRUE, isError |-> TRUE, message |-> "SecurityError"],
               [thrown |-> TRUE, isError |-> TRUE, message |-> ""],
               [thrown |-> TRUE, isError |-> FALSE, message |-> ""]}

FailureResult(msg) ==
  [success |-> FALSE, dataUrl |-> 0, options |-> "", error |-> msg,
   defined |-> TRUE]

SuccessResult(serial, options) ==
  [success |-> TRUE, dataUrl |-> serial, options |-> options, error |-> "",
   defined |-> TRUE]

IdleCall ==
  [pc |-> "idle", id |-> "", options |-> "", invalidated |-> FALSE]

\* lastOp: the operation of the last step, its arguments (id, options of a
\* capture, force), whether the capture
\* cache held a fresh result for id when a forced capture was called (cached),
\* what it did (effects, techniques), what it returned (returned, result,
\* element, via, info; popped: the pixels of the canvas that getPooledCanvas
\* took from the pool, before its size was set; pooled: the image of the
\* capture was drawn on a canvas obtained with getPooledCanvas; stale: the capture that
\* resumed had its identifier invalidated while it was suspended) and whether
\* the reference run that never sweeps returned the same (refAgree)
NoOp == [op |-> "init", id |-> "", options |-> "", force |-> FALSE,
         cached |-> FALSE,
         info |-> "none", popped |-> "none",
         effects |-> {}, returned |-> FALSE, result |-> NoResult,
         element |-> 0, via |-> "none", techniques |-> <<>>,
         pooled |-> FALSE, stale |-> FALSE, refAgree |-> TRUE]

EnvOp(name, id) == [NoOp EXCEPT !.op = name, !.id = id]

HostOp == [NoOp EXCEPT !.op = "host"]

(***************************************************************************)
(* Cache layer: cache.ts / chart-print-service.ts lines 94-167             *)
(***************************************************************************)
\* cached && Date.now() - cached.timestamp < ELEMENT_CACHE_TTL
ElementEntryFresh(entry, t) ==
  entry.g # 0 /\ t - entry.timestamp < ELEMENT_CACHE_TTL

\* mutant: the comparison of the capture TTL test is inverted
CaptureEntryFreshInverted(entry, t) ==
  entry.result.defined /\ t - entry.timestamp > CAPTURE_CACHE_TTL

\* cached && Date.now() - cached.timestamp < CAPTURE_CACHE_TTL
CaptureEntryFresh(entry, t) ==
  entry.result.defined /\ t - entry.timestamp < CAPTURE_CACHE_TTL

\* cache.ts getCachedElement: the element, or 0 for null
getCachedElement(ec, id, t) ==
  IF ElementEntryFresh(ec[id], t) THEN ec[id].g ELSE 0

\* cache.ts setCachedElement / chartElementCache.set(id, {element, timestamp})
setCachedElement(ec, id, g, t) ==
  [ec EXCEPT ![id] = [g |-> g, timestamp |-> t]]

\* cache.ts getCachedCapture / the cache test of captureChartAsImage
getCachedCapture(cc, id, t) ==
  IF CaptureEntryFresh(cc[id], t) THEN cc[id].result ELSE NoResult

\* mutant: a cache of one entry, storing a capture evicts the others
setCachedCaptureEvicting(cc, id, result, t) ==
  [w \in Ids |-> IF w = id THEN [result |-> result, timestamp |-> t]
                 ELSE NoCaptureEntry]

\* cache.ts setCachedCapture / captureCache.set(id, {result, timestamp})
setCachedCapture(cc, id, result, t) ==
  [cc EXCEPT ![id] = [result |-> result, timestamp |-> t]]

\* mutant: the cache is consulted even when forceRefresh is set
ServedFromCacheIgnoringForce(force, cc, id, t) ==
  getCachedCapture(cc, id, t).defined

\* if (!forceRefresh) { cached = ...; if (cached) return cached }
ServedFromCache(force, cc, id, t) ==
  ~force /\ getCachedCapture(cc, id, t).defined

\* cleanExpiredCache on the element cache
SweepElements(ec, t) ==
  [w \in Ids |->
     IF ec[w].g # 0 /\ t - ec[w].timestamp > ELEMENT_CACHE_TTL
     THEN NoElementEntry ELSE ec[w]]

\* mutant: the sweep removes the entries that are younger than the TTL
SweepCapturesInverted(cc, t) ==
  [w \in Ids |->
     IF cc[w].result.defined /\ t - cc[w].timestamp < CAPTURE_CACHE_TTL
     THEN NoCaptureEntry ELSE cc[w]]

\* cleanExpiredCache on the capture cache
SweepCaptures(cc, t) ==
  [w \in Ids |->
     IF cc[w].result.defined /\ t - cc[w].timestamp > CAPTURE_CACHE_TTL
     THEN NoCaptureEntry ELSE cc[w]]

\* a canvas element: its rendering context ("none" before the first
\* getContext call) and whether its bitmap holds a drawing
NewCanvas == [context |-> "none", pixels |-> "blank"]

\* canvas.width = width; canvas.height = height: setting a dimension of a
\* canvas resets its bitmap, whatever its context
SetCanvasSize(canvas) == [canvas EXCEPT !.pixels = "blank"]

\* canvasPool.pop() || document.createElement("canvas"), then the size is set
getPooledCanvas(pool) ==
  IF Len(pool) > 0
  THEN [canvas |-> SetCanvasSize(pool[Len(pool)]), popped |-> pool[Len(pool)],
        pool |-> SubSeq(pool, 1, Len(pool) - 1)]
  ELSE [canvas |-> SetCanvasSize(NewCanvas), popped |-> NewCanvas,
        pool |-> pool]

\* canvas.getContext("2d") answers null when the canvas has a context of
\* another type; otherwise clearRect empties the bitmap
ClearCanvas(canvas) ==
  IF canvas.context \in {"none", "2d"}
  THEN [context |-> "2d", pixels |-> "blank"]
  ELSE canvas

\* mutant: the canvas is pushed whatever the length of the pool
returnCanvasToPoolUnbounded(pool, canvas) ==
  Append(pool, ClearCanvas(canvas))

\* returnCanvasToPool: below MAX_POOL_SIZE the canvas is cleared when its 2d
\* context is available, and pushed; otherwise it is dropped
returnCanvasToPool(pool, canvas) ==
  IF Len(pool) < MAX_POOL_SIZE
  THEN Append(pool, ClearCanvas(canvas))
  ELSE pool

(***************************************************************************)
(* Widget locator: chart-print-service.ts 325-347, 2116-2196;              *)
(* widget-utils.ts                                                         *)
(***************************************************************************)
\* document.contains(element): the container of generation g of widget w is
\* attached iff it is the one currently mounted
DocumentContains(d, id, g) == g # 0 /\ d[id] = g

\* isChartWidgetAvailable; fault is a failure of getAppStore().getState(),
\* which widget-utils.ts catches and chart-print-service.ts lets escape
isChartWidgetAvailable(im, id, fault) ==
  IF id = "" THEN FALSE
  ELSE IF im = "modular" /\ fault.thrown THEN FALSE
  ELSE WidgetRegistry[id] = "chart"

\* getChartWidgetInfo: "none" stands for null
getChartWidgetInfo(id) ==
  IF id = "" THEN "none" ELSE WidgetRegistry[id]

\* chart-print-service.ts getChartElement
GetChartElementService(id, ec, d, t) ==
  LET cached == ec[id]
      hit == ElementEntryFresh(cached, t)
  IN IF hit /\ DocumentContains(d, id, cached.g)
     THEN [element |-> cached.g, via |-> "cache", cache |-> ec]
     ELSE LET ec1 == IF hit THEN [ec EXCEPT ![id] = NoElementEntry] ELSE ec
          IN IF d[id] # 0
             THEN [element |-> d[id], via |-> "dom",
                   cache |-> setCachedElement(ec1, id, d[id], t)]
             ELSE [element |-> 0, via |-> "none", cache |-> ec1]

\* widget-utils.ts getChartElement
GetChartElementModular(id, ec, d, t) ==
  LET cached == getCachedElement(ec, id, t)
  IN IF cached # 0 /\ DocumentContains(d, id, cached)
     THEN [element |-> cached, via |-> "cache", cache |-> ec]
     ELSE IF d[id] = 0
          THEN [element |-> 0, via |-> "none", cache |-> ec]
          ELSE [element |-> d[id], via |-> "dom",
                cache |-> setCachedElement(ec, id, d[id], t)]

getChartElement(im, id, ec, d, t) ==
  IF im = "service" THEN GetChartElementService(id, ec, d, t)
  ELSE GetChartElementModular(id, ec, d, t)

(***************************************************************************)
(* Visual capture engine: chart-print-service.ts 2206-2440; capture.ts     *)
(***************************************************************************)
\* the error string built by the catch block of captureChartAsImage
CatchMessage(fault) ==
  IF fault.isError THEN fault.message
  ELSE "Erreur inconnue lors de la capture"

WidgetNotFoundMessage(im) ==
  IF im = "service" THEN "Widget Chart non trouve"
  ELSE "Widget Chart non trouve dans appConfig"

ElementNotFoundMessage == "Element DOM du Chart non trouve"

CaptureFailedMessage(im) ==
  IF im = "service" THEN "Echec de la capture du diagramme"
  ELSE "Echec de la capture du diagramme - htmlToCanvas a retourne null"

\* mutant: the result is stored whether or not toDataURL raised
SerializeStoringFailure(id, o, urlFault, cc, t, serial) ==
  LET r == IF urlFault.thrown THEN FailureResult(CatchMessage(urlFault))
           ELSE SuccessResult(serial, o)
  IN [result |-> r, cc |-> setCachedCapture(cc, id, r, t),
      serial |-> IF urlFault.thrown THEN serial ELSE serial + 1]

\* canvas.toDataURL, result construction and captureCache.set of
\* captureChartAsImage; urlFault is an exception raised by toDataURL
Serialize(id, o, urlFault, cc, t, serial) ==
  IF urlFault.thrown
  THEN [result |-> FailureResult(CatchMessage(urlFault)), cc |-> cc,
        serial |-> serial]
  ELSE [result |-> SuccessResult(serial, o),
        cc |-> setCachedCapture(cc, id, SuccessResult(serial, o), t),
        serial |-> serial + 1]

\* captureChartAsImage up to its first suspension: the cache test, the
\* availability check, the element lookup and technique 1 of htmlToCanvas
\* (reuse of an existing canvas: found is "none" when there is no canvas larger
\* than 100x100 or the pooled canvas gives no 2d context, "match" when its
\* size fits the target, "resize" when it is redrawn on a pooled canvas,
\* "error" when the technique raises and the catch of htmlToCanvas returns
\* null)
CaptureSync(im, id, o, force, fault, found, urlFault, ec, cc, pool, d, t, serial) ==
  LET base == [kind |-> "return", result |-> NoResult, effects |-> {},
               techniques |-> <<>>, element |-> 0, ec |-> ec, cc |-> cc,
               pool |-> pool, pooled |-> FALSE, serial |-> serial]
      ge == getChartElement(im, id, ec, d, t)
      looked == {"isChartWidgetAvailable", "getChartElement"}
  IN IF ServedFromCache(force, cc, id, t)
     THEN [base EXCEPT !.result = getCachedCapture(cc, id, t)]
     ELSE IF im = "service" /\ fault.thrown
     THEN [base EXCEPT !.result = FailureResult(CatchMessage(fault)),
                       !.effects = {"isChartWidgetAvailable"}]
     ELSE IF ~isChartWidgetAvailable(im, id, fault)
     THEN [base EXCEPT !.result = FailureResult(WidgetNotFoundMessage(im)),
                       !.effects = {"isChartWidgetAvailable"}]
     ELSE IF ge.element = 0
     THEN [base EXCEPT !.result = FailureResult(ElementNotFoundMessage),
                       !.effects = looked, !.ec = ge.cache]
     ELSE IF found = "error"
     THEN [base EXCEPT !.result = FailureResult(CaptureFailedMessage(im)),
                       !.effects = looked \cup {"rasterization"},
                       !.techniques = <<"canvas">>,
                       !.element = ge.element, !.ec = ge.cache]
     ELSE IF found \in {"match", "resize"}
     THEN LET pc == IF found = "resize" THEN getPooledCanvas(pool).pool
                    ELSE pool
              sz == Serialize(id, o, urlFault, cc, t, serial)
          IN [base EXCEPT !.result = sz.result,
                          !.effects = looked \cup {"rasterization"},
                          !.techniques = <<"canvas">>,
                          !.element = ge.element, !.ec = ge.cache,
                          !.cc = sz.cc, !.pool = pc,
                          !.pooled = (found = "resize"),
                          !.serial = sz.serial]
     ELSE [base EXCEPT !.kind = "suspend",
                       !.effects = looked \cup {"rasterization"},
                       !.techniques = <<"canvas", "html2canvas">>,
                       !.element = ge.element, !.ec = ge.cache]

(***************************************************************************)
(* Data extractor: chart-print-service.ts 454-878                          *)
(***************************************************************************)
\* attribute values of a data record (the result of record.getData()[field])
Num(n) == [t |-> "num", n |-> n, s |-> ""]

Str(s) == [t |-> "str", n |-> 0, s |-> s]

Null == [t |-> "null", n |-> 0, s |-> ""]

Undefined == [t |-> "undefined", n |-> 0, s |-> ""]

\* values found in the first and in the second field of the records
CategoryValues == {Num(2021), Num(2020), Str("A"), Str("2020"), Null}

NumericValues == {Num(5), Str("7"), Null}

\* Object.keys(record.getData()) of the records of a data source
Schemas == {<<"year", "total">>, <<"code", "total">>}

SourceRecords == [c : CategoryValues, v : NumericValues]

\* the non-empty record lists a data source accessor may return
RecordSeqs == UNION {[1..n -> SourceRecords] : n \in 1..MaxRecords}

\* data[field]
Field(data, schema, f) ==
  IF f = schema[1] THEN data.c
  ELSE IF f = schema[2] THEN data.v
  ELSE Undefined

\* strings of the model that parseFloat reads as a number
NumericStrings == ("7" :> 7) @@ ("2020" :> 2020) @@ ("5" :> 5) @@ ("0" :> 0)

\* parseFloat(v): a number, or NaN
ParseFloat(v) ==
  IF v.t = "num" THEN [nan |-> FALSE, n |-> v.n]
  ELSE IF v.t = "str" /\ v.s \in DOMAIN NumericStrings
  THEN [nan |-> FALSE, n |-> NumericStrings[v.s]]
  ELSE [nan |-> TRUE, n |-> 0]

\* parseFloat(v) || 0
ParseFloatOrZero(v) == IF ParseFloat(v).nan THEN 0 ELSE ParseFloat(v).n

\* String(category)
String(v) == IF v.t = "num" THEN ToString(v.n) ELSE v.s

\* field names of the model that match
\* /year|annee|date|category|categorie|name|nom|label/i
CategoryLike == {"year"}

\* the category field used: the declared one when the first record has it,
\* else the first field whose name looks like a category, else the first field
DetectCategoryField(declared, schema) ==
  IF declared # "" /\ \E i \in DOMAIN schema : schema[i] = declared
  THEN declared
  ELSE IF \E i \in DOMAIN schema : schema[i] \in CategoryLike
  THEN LET i == CHOOSE k \in DOMAIN schema :
                  /\ schema[k] \in CategoryLike
                  /\ \A j \in 1..(k - 1) : schema[j] \notin CategoryLike
       IN schema[i]
  ELSE schema[1]

\* typeof val === "number" || !isNaN(parseFloat(val))
LooksNumeric(v) == v.t = "num" \/ ~ParseFloat(v).nan

\* the value field used: the declared one when the first record has it, else
\* the first field whose sample value is numeric, else the second field
DetectValueField(declared, schema, sample) ==
  IF declared # "" /\ \E i \in DOMAIN schema : schema[i] = declared
  THEN declared
  ELSE IF \E i \in DOMAIN schema : LooksNumeric(Field(sample, schema, schema[i]))
  THEN LET i == CHOOSE k \in DOMAIN schema :
                  /\ LooksNumeric(Field(sample, schema, schema[k]))
                  /\ \A j \in 1..(k - 1) :
                        ~LooksNumeric(Field(sample, schema, schema[j]))
       IN schema[i]
  ELSE schema[2]

\* mutant: the accumulation overwrites the value of the category
RECURSIVE AccumulateLastWins(_, _, _, _, _)
AccumulateLastWins(acc, recs, schema, cf, vf) ==
  IF recs = <<>> THEN acc
  ELSE LET category == Field(Head(recs), schema, cf)
           value == ParseFloatOrZero(Field(Head(recs), schema, vf))
           hit == {i \in DOMAIN acc : acc[i].category = category}
           next == IF category.t \in {"undefined", "null"} THEN acc
                   ELSE IF hit = {}
                   THEN Append(acc, [category |-> category, value |-> value])
                   ELSE [i \in DOMAIN acc |->
                           IF i \in hit THEN [acc[i] EXCEPT !.value = value]
                           ELSE acc[i]]
       IN AccumulateLastWins(next, Tail(recs), schema, cf, vf)

\* the loop over allRecords: aggregatedData (a Map, in insertion order) after
\* the records recs are added to acc
RECURSIVE Accumulate(_, _, _, _, _)
Accumulate(acc, recs, schema, cf, vf) ==
  IF recs = <<>> THEN acc
  ELSE LET category == Field(Head(recs), schema, cf)
           value == ParseFloatOrZero(Field(Head(recs), schema, vf))
           hit == {i \in DOMAIN acc : acc[i].category = category}
           next == IF category.t \in {"undefined", "null"} THEN acc
                   ELSE IF hit = {}
                   THEN Append(acc, [category |-> category, value |-> value])
                   ELSE [i \in DOMAIN acc |->
                           IF i \in hit THEN [acc[i] EXCEPT !.value = @ + value]
                           ELSE acc[i]]
       IN Accumulate(next, Tail(recs), schema, cf, vf)

\* the strings of the model in the order of String.prototype.localeCompare
CollationOrder == <<"2020", "2021", "A", "B">>

LocaleCompare(a, b) ==
  LET rank(s) == CHOOSE i \in DOMAIN CollationOrder : CollationOrder[i] = s
  IN rank(a) - rank(b)

\* mutant: the comparator orders the categories downwards
CompareCategoryDescending(a, b) ==
  IF a.category.t = "num" /\ b.category.t = "num"
  THEN b.category.n - a.category.n
  ELSE LocaleCompare(String(b.category), String(a.category))

\* the comparator of chartData.sort
CompareCategory(a, b) ==
  IF a.category.t = "num" /\ b.category.t = "num"
  THEN a.category.n - b.category.n
  ELSE LocaleCompare(String(a.category), String(b.category))

\* chartData.sort (a stable sort)
RECURSIVE SortByCategory(_)
SortByCategory(data) ==
  IF data = <<>> THEN <<>>
  ELSE LET n == Len(data)
           sorted == SortByCategory(SubSeq(data, 1, n - 1))
           x == data[n]
           k == Cardinality({i \in DOMAIN sorted :
                               CompareCategory(sorted[i], x) <= 0})
       IN SubSeq(sorted, 1, k) \o <<x>> \o SubSeq(sorted, k + 1, Len(sorted))

\* the error string of an extraction result and the identifiers it embeds
ExtractionError(text, o, u) == [text |-> text, outputDS |-> o, useDS |-> u]

NoError == ExtractionError("", "", "")

\* no result yet
NoExtraction ==
  [defined |-> FALSE, success |-> FALSE, hasData |-> FALSE, data |-> <<>>,
   error |-> NoError, categoryField |-> "", valueField |-> "",
   totalRecords |-> 0]

ExtractionFailure(err) ==
  [NoExtraction EXCEPT !.defined = TRUE, !.error = err]

ExtractionSuccess(data, cf, vf, total) ==
  [NoExtraction EXCEPT !.defined = TRUE, !.success = TRUE, !.hasData = TRUE,
                       !.data = data, !.categoryField = cf,
                       !.valueField = vf, !.totalRecords = total]

\* widgets[id] of a registered chart widget: its data sources and the fields
\* declared by its first series
WidgetConfigs ==
  {[registered |-> TRUE, outputDataSources |-> o, useDataSources |-> u,
    categoryField |-> f[1], valueField |-> f[2]] :
     o \in {<<>>, <<"out1">>}, u \in {<<>>, <<"in1">>},
     f \in {<<"year", "total">>, <<"", "">>}}

\* getChartWidgetInfo returned null
NoInfo ==
  [registered |-> FALSE, outputDataSources |-> <<>>, useDataSources |-> <<>>,
   categoryField |-> "", valueField |-> ""]

\* ids?.[0] || dflt
FirstOr(ids, dflt) == IF ids # <<>> /\ ids[1] # "" THEN ids[1] ELSE dflt

\* what the accessors of the output data source do: getDataSource finds it or
\* not, getSourceRecords and getRecords throw, return nothing or return records
OutputScenarios ==
  {[found |-> FALSE, sourceRecords |-> "empty", getRecords |-> "empty"]}
  \cup {[found |-> TRUE, sourceRecords |-> "records", getRecords |-> "empty"]}
  \cup {[found |-> TRUE, sourceRecords |-> a, getRecords |-> b] :
          a \in {"throw", "empty"}, b \in {"throw", "empty", "records"}}

\* strategy 1 of extractChartData: the records read from the output data source
OutputRecords(info, sc, R) ==
  IF info.outputDataSources = <<>> \/ ~sc.found THEN <<>>
  ELSE IF sc.sourceRecords = "records" THEN R
  ELSE IF sc.getRecords = "records" THEN R
  ELSE <<>>

\* what the upstream data source does: ds.query resolves or rejects, then
\* getRecords and getSourceRecords return or throw
UseScenarios ==
  {[query |-> q, getRecords |-> "empty", getSourceRecords |-> "empty"] :
     q \in {"records", "empty"}}
  \cup {[query |-> "reject", getRecords |-> g, getSourceRecords |-> "empty"] :
          g \in {"records", "empty"}}
  \cup {[query |-> "reject", getRecords |-> "throw", getSourceRecords |-> g] :
          g \in {"records", "empty", "throw"}}

\* strategy 2 of extractChartData after ds.query settled: the records, or the
\* exception that reaches the outer catch
UseRecords(sc, R) ==
  IF sc.query = "records" THEN [thrown |-> FALSE, records |-> R]
  ELSE IF sc.query = "empty" THEN [thrown |-> FALSE, records |-> <<>>]
  ELSE IF sc.getRecords = "records" THEN [thrown |-> FALSE, records |-> R]
  ELSE IF sc.getRecords = "empty" THEN [thrown |-> FALSE, records |-> <<>>]
  ELSE IF sc.getSourceRecords = "records"
  THEN [thrown |-> FALSE, records |-> R]
  ELSE IF sc.getSourceRecords = "empty"
  THEN [thrown |-> FALSE, records |-> <<>>]
  ELSE [thrown |-> TRUE, records |-> <<>>]

\* extractChartData from the test of allRecords on: the failure for no
\* record, or field detection, aggregation, conversion and sort
TransformRecords(info, schema, allRecords) ==
  IF allRecords = <<>>
  THEN ExtractionFailure(
         ExtractionError("Aucun enregistrement trouve",
                         FirstOr(info.outputDataSources, "none"),
                         FirstOr(info.useDataSources, "none")))
  ELSE LET cf == DetectCategoryField(info.categoryField, schema)
           vf == DetectValueField(info.valueField, schema, allRecords[1])
           aggregatedData == Accumulate(<<>>, allRecords, schema, cf, vf)
           chartData == [i \in DOMAIN aggregatedData |->
                           [category |-> aggregatedData[i].category,
                            value |-> aggregatedData[i].value,
                            label |-> String(aggregatedData[i].category)]]
       IN ExtractionSuccess(SortByCategory(chartData), cf, vf, Len(allRecords))

\* the legend of the chart in the document: where the items are (legend
\* nodes, the shadow root of the chart component, data attributes, nowhere)
\* and, per item, its label text and the text of its value node
LegendItems == [label : {"", "A", "B"}, value : {"", "5"}]

DomScenarios ==
  {[method |-> "none", items |-> <<>>]}
  \cup {[method |-> m, items |-> it] :
          m \in {"legend", "shadow", "attributes"},
          it \in UNION {[1..n -> LegendItems] : n \in 1..MaxLegend}}

\* the chart data parsed from the items: items without label are skipped, the
\* value is parseFloat(text) || 0, and 0 in the shadow root
ParseLegend(sc) ==
  LET labelled == SelectSeq(sc.items, LAMBDA it : it.label # "")
  IN [i \in DOMAIN labelled |->
        [category |-> Str(labelled[i].label),
         value |-> IF sc.method = "shadow" THEN 0
                   ELSE ParseFloatOrZero(Str(labelled[i].value)),
         label |-> labelled[i].label]]

\* extractChartDataFromDOM(id): element is what getChartElement returned
extractChartDataFromDOM(element, sc) ==
  IF element = 0
  THEN ExtractionFailure(
         ExtractionError("Element Chart non trouve dans le DOM", "", ""))
  ELSE IF ParseLegend(sc) = <<>>
  THEN ExtractionFailure(
         ExtractionError("Impossible d'extraire les donnees depuis le DOM",
                         "", ""))
  ELSE [ExtractionSuccess(ParseLegend(sc), "", "", Len(ParseLegend(sc)))
          EXCEPT !.categoryField = "", !.valueField = ""]

\* mutant: the test accepts a successful result without records
HasDataSuccessOnly(result) == result.success

\* result.success && result.data && result.data.length > 0
HasData(result) == result.success /\ result.hasData /\ Len(result.data) > 0

\* mutant: the failure report leaves the identifiers out
FailureReportAnonymous(info) ==
  ExtractionFailure(
    ExtractionError("Impossible d'extraire les donnees", "", ""))

\* the last step of extractChartDataComplete
FailureReport(info) ==
  IF info.registered
  THEN ExtractionFailure(
         ExtractionError("Impossible d'extraire les donnees",
                         FirstOr(info.outputDataSources, "aucun"),
                         FirstOr(info.useDataSources, "aucun")))
  ELSE ExtractionFailure(
         ExtractionError("Widget Chart non trouve ou non configure", "", ""))

\* no extraction in progress
IdleExt ==
  [pc |-> "idle", id |-> "", info |-> NoInfo, schema |-> <<>>,
   allRecords |-> <<>>, legend |-> [method |-> "none", items |-> <<>>],
   trace |-> <<>>, attempted |-> {}, queryResult |-> NoExtraction,
   domResult |-> NoExtraction, result |-> NoExtraction]

(***************************************************************************)
(* Professional PDF composer: chart-print-service.ts 1004-1421             *)
(***************************************************************************)
\* no export in progress; timer is the setTimeout of the global timeout
\* ("unset", "armed", "fired", "cleared"), capture is captureResult.success,
\* data tells whether dataResult holds records, progress lists the calls of
\* the progress callback, result is what generateProfessionalChartPdf
\* returned and downloaded what generateAndDownloadProfessionalChartPdf did
IdlePdf ==
  [pc |-> "idle", wrapper |-> FALSE, onProgress |-> FALSE,
   showLegend |-> FALSE, timer |-> "unset", capture |-> "none",
   data |-> "none", progress |-> <<>>, result |-> "pending",
   downloaded |-> "pending"]

\* if (onProgress) onProgress(stage, percent, message)
Notify(p, stage, percent) ==
  IF p.onProgress
  THEN [p EXCEPT !.progress = Append(@, [stage |-> stage,
                                         percent |-> percent])]
  ELSE p

\* clearTimeout(timeoutId)
ClearTimeout(p) ==
  [p EXCEPT !.timer = IF @ = "armed" THEN "cleared" ELSE @]

\* generateAndDownloadProfessionalChartPdf once the generator returned null
DownloadFailed(p) ==
  IF p.wrapper
  THEN [Notify(p, "error", -1) EXCEPT !.downloaded = "false"]
  ELSE p

\* mutant: the catch block does not call the progress callback
PdfCatchSilent(p) ==
  DownloadFailed([ClearTimeout(p) EXCEPT !.result = "null", !.pc = "done"])

\* the catch block of generateProfessionalChartPdf, and what its caller does
\* with the null it returns
PdfCatch(p) ==
  DownloadFailed([Notify(ClearTimeout(p), "error", -1)
                    EXCEPT !.result = "null", !.pc = "done"])

(***************************************************************************)
(* Legend, complete and multi-chart composers:                             *)
(* chart-print-service.ts 1444-1606, 1642-1822, 2511-2718                  *)
(***************************************************************************)
\* no composer call in progress; composer is the function called, fallback
\* tells that generateChartPdfWithFullLegend handed over to generateChartPdf,
\* data whether dataResult holds records, capture is captureResult.success,
\* image, placeholder, legend and table tell what was drawn on the document,
\* chartWidgetIds, i, captured and pages are the list, the loop index, the
\* capture outcomes so far and pdf.getNumberOfPages() of generateMultiChartPdf,
\* result is what the call returned
IdleDoc ==
  [pc |-> "idle", composer |-> "none", fallback |-> FALSE, data |-> "none",
   capture |-> "none", image |-> FALSE, placeholder |-> FALSE,
   legend |-> FALSE, table |-> FALSE, includeDataTable |-> FALSE,
   chartWidgetIds |-> <<>>, i |-> 0, captured |-> <<>>, pages |-> 0,
   result |-> "pending"]

\* the catch block of a composer: return null
DocCatch(d) == [d EXCEPT !.pc = "done", !.result = "null"]

\* mutant: a page is added before every chart, the first one included
MultiAddPageAlways(i, pages) == pages + 1

\* if (i > 0) pdf.addPage(), i counting from 0; new jsPDF() holds one page
MultiAddPage(i, pages) == IF i > 0 THEN pages + 1 ELSE pages

\* the lists of identifiers handed to generateMultiChartPdf
ChartIdLists == UNION {[1..n -> TimedIds] : n \in 0..MaxCharts}

(***************************************************************************)
(* Legend of the professional layout: chart-print-service.ts 1243-1304      *)
(***************************************************************************)
\* no legend being drawn; n is legendData.length, i the loop index and cells
\* lists the column and row at which each item was drawn
IdleLayout ==
  [pc |-> "idle", n |-> 0, legendColumns |-> 0, i |-> 0, cells |-> <<>>]

\* mutant: the quotient is rounded down
ItemsPerColumnFloor(n, legendColumns) ==
  IF n < legendColumns THEN 1 ELSE n \div legendColumns

\* Math.ceil(legendData.length / legendColumns)
ItemsPerColumn(n, legendColumns) == (n + legendColumns - 1) \div legendColumns

\* columnIndex = Math.floor(i / itemsPerColumn), rowIndex = i % itemsPerColumn
LegendCell(i, n, legendColumns) ==
  [columnIndex |-> i \div ItemsPerColumn(n, legendColumns),
   rowIndex |-> i % ItemsPerColumn(n, legendColumns)]

(***************************************************************************)
(* printChartOnly: chart-print-service.ts 2847-2978;                       *)
(* chart-widget-selector.tsx 856-981                                       *)
(***************************************************************************)
\* no printChartOnly call in progress. element is "none" for a null
\* chartElement, else chartElement.content ("" when empty); outputFormat is
\* the format of the outer call; window tells what window.open answered;
\* fellBack that the call re-entered itself with format "pdf"; image what the
\* load of the image did; outcome, url, blob and error what the promise
\* settled with; downloads the files handed to the browser so far and serial
\* the number of calls so far
IdlePrint ==
  [pc |-> "idle", element |-> "none", elementTitle |-> "", title |-> "",
   outputFormat |-> "pdf", window |-> "none", fellBack |-> FALSE,
   image |-> "none", outcome |-> "pending", url |-> "", blob |-> FALSE,
   error |-> "", downloads |-> <<>>, serial |-> 0]

\* chartElement.title || title
DisplayTitle(p) == IF p.elementTitle # "" THEN p.elementTitle ELSE p.title

PrintRejected(p, message) ==
  [p EXCEPT !.pc = "done", !.outcome = "rejected", !.error = message]

PrintResolved(p, url, blob) ==
  [p EXCEPT !.pc = "done", !.outcome = "resolved", !.url = url,
            !.blob = blob]

\* printChartOnly(chartElement, title, format) from its entry to the await of
\* the image (pdf), to its return (png, missing input) or to window.open
PrintEnter(p, format) ==
  IF p.element \in {"none", ""}
  THEN PrintRejected(p, "No chart element provided for printing")
  ELSE IF format = "pdf" THEN [p EXCEPT !.pc = "imgload"]
  ELSE IF format = "png"
  THEN PrintResolved([p EXCEPT !.downloads =
                                 Append(@, <<DisplayTitle(p), "png">>)],
                     p.element, FALSE)
  ELSE [p EXCEPT !.pc = "open"]

\* mutant: a blocked popup makes the call fail
OpenPrintWindowFailing(p, opened) ==
  IF ~opened
  THEN PrintRejected([p EXCEPT !.window = "blocked"], "popup blocked")
  ELSE PrintResolved([p EXCEPT !.window = "opened"], p.element, FALSE)

\* window.open: with a null handle the call returns
\* printChartOnly(chartElement, title, "pdf"), else it writes the page and
\* resolves with the content as url
OpenPrintWindow(p, opened) ==
  IF ~opened
  THEN PrintEnter([p EXCEPT !.window = "blocked", !.fellBack = TRUE], "pdf")
  ELSE PrintResolved([p EXCEPT !.window = "opened"], p.element, FALSE)

\* chart elements handed to printChartOnly, their titles and the title
\* argument
PrintElements == {"none", "", "data:image/png"}

PrintTitles == {"", "Ventes"}

PrintTitleArgs == {"Chart Export", "Rapport"}

(***************************************************************************)
(* validateChartPrintOptions: chart-print-service.ts 2778-2810             *)
(***************************************************************************)
\* Object.values(ChartPosition)
ChartPositions == {"TOP", "BOTTOM", "LEFT", "RIGHT", "OVERLAY"}

\* a dimension of chartSize: a number, or NaN
NaN == [nan |-> TRUE, n |-> 0]

Number(n) == [nan |-> FALSE, n |-> n]

\* x <= 0, which is false for NaN
NotAboveZero(x) == ~x.nan /\ x.n <= 0

\* options handed to validateChartPrintOptions: "" stands for a missing
\* chartWidgetId or chartPosition (undefined and "" are both falsy),
\* hasSize tells whether chartSize is present
IdValues == {"", "w1"}

DimensionValues == {Number(-1), Number(0), Number(300), NaN}

PositionValues == {"", "TOP", "OVERLAY", "CENTER"}

PrintOptionValues ==
  [chartWidgetId : IdValues, hasSize : {TRUE}, width : DimensionValues,
   height : DimensionValues, chartPosition : PositionValues]
  \cup [chartWidgetId : IdValues, hasSize : {FALSE}, width : {NaN},
        height : {NaN}, chartPosition : PositionValues]

\* errors.push(message) when the test holds
PushIf(errors, test, message) ==
  IF test THEN Append(errors, message) ELSE errors

\* mutant: the width test is left out
ValidationErrorsNoWidth(options) ==
  LET e1 == PushIf(<<>>, options.chartWidgetId = "",
                   "chartWidgetId est requis")
      e3 == PushIf(e1, options.hasSize /\ NotAboveZero(options.height),
                   "La hauteur du diagramme doit etre positive")
  IN PushIf(e3, options.chartPosition # ""
                /\ options.chartPosition \notin ChartPositions,
            "Position du diagramme invalide")

\* the errors list built by validateChartPrintOptions
ValidationErrors(options) ==
  LET e1 == PushIf(<<>>, options.chartWidgetId = "",
                   "chartWidgetId est requis")
      e2 == PushIf(e1, options.hasSize /\ NotAboveZero(options.width),
                   "La largeur du diagramme doit etre positive")
      e3 == PushIf(e2, options.hasSize /\ NotAboveZero(options.height),
                   "La hauteur du diagramme doit etre positive")
  IN PushIf(e3, options.chartPosition # ""
                /\ options.chartPosition \notin ChartPositions,
            "Position du diagramme invalide")

\* validateChartPrintOptions(options)
validateChartPrintOptions(options) ==
  [valid |-> Len(ValidationErrors(options)) = 0,
   errors |-> ValidationErrors(options)]

\* no call yet
NoValidation ==
  [called |-> FALSE,
   options |-> [chartWidgetId |-> "", hasSize |-> FALSE, width |-> NaN,
                height |-> NaN, chartPosition |-> ""],
   valid |-> FALSE, errors |-> <<>>]

(***************************************************************************)
(* addChartToTemplate: chart-print-service.ts 2486-2502;                   *)
(* chart-widget-selector.tsx 798-813                                       *)
(***************************************************************************)
\* print template properties: missing stands for null or undefined,
\* hasExtraElements tells whether the object has an extraElements array
MissingTemplate ==
  [missing |-> TRUE, format |-> "", hasExtraElements |-> FALSE,
   extraElements |-> <<>>]

TemplateElements == {"legend", "scalebar"}

TemplateValues ==
  {MissingTemplate}
  \cup [missing : {FALSE}, format : {"A4", "A3"}, hasExtraElements : {TRUE},
        extraElements :
          UNION {[1..n -> TemplateElements] : n \in 0..MaxExtra}]
  \cup [missing : {FALSE}, format : {"A4", "A3"}, hasExtraElements : {FALSE},
        extraElements : {<<>>}]

\* chart elements handed to addChartToTemplate, "none" for a missing one
ChartElements == {"none", "chart1", "chart2", "chart3"}

\* addChartToTemplate(printTemplateProperties, chartElement): returned tells
\* which object is returned, result is its content and input the content of
\* the argument object after the call. extraElements.push acts on the array
\* of the argument when it has one ([] is truthy) and on a new array
\* otherwise
addChartToTemplate(printTemplateProperties, chartElement) ==
  IF printTemplateProperties.missing \/ chartElement = "none"
  THEN [returned |-> "input", result |-> printTemplateProperties,
        input |-> printTemplateProperties]
  ELSE LET extraElements ==
             Append(printTemplateProperties.extraElements, chartElement)
       IN [returned |-> "new",
           result |-> [printTemplateProperties EXCEPT
                         !.hasExtraElements = TRUE,
                         !.extraElements = extraElements],
           input |-> IF printTemplateProperties.hasExtraElements
                     THEN [printTemplateProperties EXCEPT
                             !.extraElements = extraElements]
                     ELSE printTemplateProperties]

\* no call yet
NoTemplateCall ==
  [called |-> FALSE, before |-> MissingTemplate, chartElement |-> "none",
   returned |-> "input", result |-> MissingTemplate,
   after |-> MissingTemplate]

\* nothing in progress in the other components
(***************************************************************************)
(* Item loops and yieldToMain: chart-print-service.ts 922-950, 1253-1301,  *)
(* 1541-1576                                                               *)
(***************************************************************************)
\* const LEGEND_CHUNK_SIZE = 15 of generateProfessionalChartPdf
LEGEND_CHUNK_SIZE == 15

\* the loops over items: the legend of generateProfessionalChartPdf, the
\* legend of generateChartPdfWithFullLegend and executeInChunks
LoopKinds == {"professional", "fullLegend", "executeInChunks"}

\* values of the chunkSize argument of executeInChunks (default 10)
ChunkSizes == {1, 3, 10}

\* no loop is running
IdleLoop ==
  [pc |-> "idle", kind |-> "", n |-> 0, chunkSize |-> 0, i |-> 0,
   sinceYield |-> 0, yields |-> 0]

\* whether the iteration of index i is followed by 'await yieldToMain()'
YieldsAfter(kind, i, n, chunkSize) ==
  IF kind = "professional"
  THEN (i + 1) % LEGEND_CHUNK_SIZE = 0 /\ i < n - 1
  ELSE IF kind = "executeInChunks"
  THEN (i + 1) % chunkSize = 0
  ELSE FALSE

AuxIdle ==
  /\ doc = IdleDoc
  /\ layout = IdleLayout
  /\ held = <<>>
  /\ print = IdlePrint
  /\ validation = NoValidation
  /\ template = NoTemplateCall
  /\ loop = IdleLoop

(***************************************************************************)
(* Specification of the cache layer, the locator and the capture engine    *)
(***************************************************************************)
Init ==
  /\ impl \in Impls
  /\ now = 0
  /\ ticks = 0
  /\ dom = [w \in Ids |-> 0]
  /\ domGen = [w \in Ids |-> 0]
  /\ chartElementCache = [w \in Ids |-> NoElementEntry]
  /\ captureCache = [w \in Ids |-> NoCaptureEntry]
  /\ canvasPool = <<>>
  /\ calls = [s \in CallSlots |-> IdleCall]
  /\ nextSerial = 1
  /\ lastOp = NoOp
  /\ refElementCache = [w \in Ids |-> NoElementEntry]
  /\ refCaptureCache = [w \in Ids |-> NoCaptureEntry]
  /\ ext = IdleExt
  /\ pdf = IdlePdf
  /\ AuxIdle

\* the clock advances
Tick(d) ==
  /\ ticks < MaxTicks
  /\ now' = now + d
  /\ ticks' = ticks + 1
  /\ lastOp' = HostOp
  /\ UNCHANGED <<auxVars, ext, pdf, impl, dom, domGen, chartElementCache, captureCache,
                 canvasPool, calls, nextSerial, refElementCache,
                 refCaptureCache>>

\* the host renders the container of widget w
Mount(w) ==
  /\ dom[w] = 0
  /\ domGen[w] < MaxGen
  /\ domGen' = [domGen EXCEPT ![w] = @ + 1]
  /\ dom' = [dom EXCEPT ![w] = domGen[w] + 1]
  /\ lastOp' = HostOp
  /\ UNCHANGED <<auxVars, ext, pdf, impl, now, ticks, chartElementCache, captureCache,
                 canvasPool, calls, nextSerial, refElementCache,
                 refCaptureCache>>

\* the host removes the container of widget w from the document
Unmount(w) ==
  /\ dom[w] # 0
  /\ dom' = [dom EXCEPT ![w] = 0]
  /\ lastOp' = HostOp
  /\ UNCHANGED <<auxVars, ext, pdf, impl, now, ticks, domGen, chartElementCache,
                 captureCache, canvasPool, calls, nextSerial, refElementCache,
                 refCaptureCache>>

\* a call of the exported getChartElement(id)
GetElement(id) ==
  LET r == getChartElement(impl, id, chartElementCache, dom, now)
      rr == getChartElement(impl, id, refElementCache, dom, now)
  IN /\ chartElementCache' = r.cache
     /\ refElementCache' = rr.cache
     /\ lastOp' = [NoOp EXCEPT !.op = "getChartElement", !.id = id,
                               !.returned = TRUE, !.element = r.element,
                               !.via = r.via,
                               !.refAgree = (r.element = rr.element
                                             /\ r.via = rr.via)]
     /\ UNCHANGED <<auxVars, ext, pdf, impl, now, ticks, dom, domGen, captureCache,
                    canvasPool, calls, nextSerial, refCaptureCache>>

\* a call of captureChartAsImage(id, options, forceRefresh), run up to its
\* first suspension or to its return; sc is what the environment does to it
CaptureStart(s, id, o, force, sc) ==
  /\ calls[s].pc = "idle"
  /\ \A s2 \in CallSlots : s2 < s => calls[s2].pc # "idle"
  /\ nextSerial <= MaxSerial
  /\ \E r \in {CaptureSync(impl, id, o, force, sc.fault, sc.found, sc.urlFault,
                            chartElementCache, captureCache, canvasPool, dom,
                            now, nextSerial)},
        rr \in {CaptureSync(impl, id, o, force, sc.fault, sc.found,
                             sc.urlFault, refElementCache, refCaptureCache,
                             canvasPool, dom, now, nextSerial)} :
       /\ chartElementCache' = r.ec
       /\ captureCache' = r.cc
       /\ refElementCache' = rr.ec
       /\ refCaptureCache' = rr.cc
       /\ canvasPool' = r.pool
       /\ nextSerial' = r.serial
       /\ calls' = IF r.kind = "suspend"
                   THEN [calls EXCEPT ![s] = [pc |-> "html2canvas", id |-> id,
                                              options |-> o,
                                              invalidated |-> FALSE]]
                   ELSE calls
       /\ lastOp' = [NoOp EXCEPT !.op = "captureChartAsImage", !.id = id,
                                 !.options = o, !.force = force,
                                 !.cached =
                                   (force /\ getCachedCapture(
                                      captureCache, id, now).defined),
                                 !.effects = r.effects,
                                 !.returned = (r.kind = "return"),
                                 !.result = r.result, !.element = r.element,
                                 !.techniques = r.techniques,
                                 !.pooled = r.pooled,
                                 !.refAgree = (r.kind = rr.kind
                                               /\ r.result = rr.result
                                               /\ r.element = rr.element)]
  /\ UNCHANGED <<auxVars, ext, pdf, impl, now, ticks, dom, domGen>>

\* a suspended capture returns with result res (cache and serial already
\* computed by the caller)
Return(s, res, techniques, pooled) ==
  /\ calls' = [calls EXCEPT ![s] = IdleCall]
  /\ lastOp' = [NoOp EXCEPT !.op = "captureResume", !.id = calls[s].id,
                            !.options = calls[s].options,
                            !.returned = TRUE, !.result = res,
                            !.techniques = techniques,
                            !.pooled = pooled,
                            !.stale = calls[s].invalidated]

\* html2canvas settles: h2c is "ok" (canvas of the expected size), "resize"
\* (resampled on a pooled canvas) or "throw"; svg tells whether technique 3
\* then finds an svg larger than 50x50
Html2CanvasSettles(s, h2c, svg, urlFault) ==
  LET c == calls[s]
  IN /\ c.pc = "html2canvas"
     /\ IF h2c \in {"ok", "resize"}
        THEN \E sz \in {Serialize(c.id, c.options, urlFault, captureCache, now,
                                  nextSerial)},
                rsz \in {Serialize(c.id, c.options, urlFault, refCaptureCache,
                                   now, nextSerial)} :
             /\ canvasPool' = IF h2c = "resize"
                              THEN getPooledCanvas(canvasPool).pool
                              ELSE canvasPool
             /\ captureCache' = sz.cc
             /\ refCaptureCache' = rsz.cc
             /\ nextSerial' = sz.serial
             /\ Return(s, sz.result, <<"canvas", "html2canvas">>,
                       h2c = "resize")
        ELSE IF svg
        THEN /\ calls' = [calls EXCEPT ![s].pc = "svgload"]
             /\ lastOp' = [NoOp EXCEPT !.op = "svgFallback", !.id = c.id]
             /\ UNCHANGED <<canvasPool, captureCache, refCaptureCache,
                            nextSerial>>
        ELSE /\ Return(s, FailureResult(CaptureFailedMessage(impl)),
                       <<"canvas", "html2canvas", "svg">>, FALSE)
             /\ UNCHANGED <<canvasPool, captureCache, refCaptureCache,
                            nextSerial>>
     /\ UNCHANGED <<auxVars, ext, pdf, impl, now, ticks, dom, domGen, chartElementCache,
                    refElementCache>>

\* the image of the serialized svg loads, or fails / times out after 5 s
SvgImageSettles(s, loaded, urlFault) ==
  LET c == calls[s]
  IN /\ c.pc = "svgload"
     /\ IF loaded
        THEN \E sz \in {Serialize(c.id, c.options, urlFault, captureCache, now,
                                  nextSerial)},
                rsz \in {Serialize(c.id, c.options, urlFault, refCaptureCache,
                                   now, nextSerial)} :
             /\ canvasPool' = getPooledCanvas(canvasPool).pool
             /\ captureCache' = sz.cc
             /\ refCaptureCache' = rsz.cc
             /\ nextSerial' = sz.serial
             /\ Return(s, sz.result, <<"canvas", "html2canvas", "svg">>,
                       TRUE)
        ELSE /\ Return(s, FailureResult(CaptureFailedMessage(impl)),
                       <<"canvas", "html2canvas", "svg">>, FALSE)
             /\ UNCHANGED <<canvasPool, captureCache, refCaptureCache,
                            nextSerial>>
     /\ UNCHANGED <<auxVars, ext, pdf, impl, now, ticks, dom, domGen, chartElementCache,
                    refElementCache>>

\* mutant: the invalidation forgets captureCache.delete
InvalidateElementOnly(id) ==
  /\ impl = "service"
  /\ chartElementCache' = [chartElementCache EXCEPT ![id] = NoElementEntry]
  /\ refElementCache' = [refElementCache EXCEPT ![id] = NoElementEntry]
  /\ lastOp' = [NoOp EXCEPT !.op = "invalidateChartCache", !.id = id,
                            !.element = chartElementCache[id].g,
                            !.result = captureCache[id].result]
  /\ UNCHANGED <<auxVars, ext, pdf, impl, now, ticks, dom, domGen, canvasPool, calls,
                 nextSerial, captureCache, refCaptureCache>>

\* the calls in flight, those that I selects marked as having lost their
\* cache entries while suspended
MarkInvalidated(I) ==
  [s \in CallSlots |-> IF calls[s].pc # "idle" /\ calls[s].id \in I
                   THEN [calls[s] EXCEPT !.invalidated = TRUE]
                   ELSE calls[s]]

\* chart-print-service.ts invalidateChartCache(id); lastOp records the entries
\* the call found
InvalidateChartCache(id) ==
  /\ impl = "service"
  /\ chartElementCache' = [chartElementCache EXCEPT ![id] = NoElementEntry]
  /\ captureCache' = [captureCache EXCEPT ![id] = NoCaptureEntry]
  /\ refElementCache' = [refElementCache EXCEPT ![id] = NoElementEntry]
  /\ refCaptureCache' = [refCaptureCache EXCEPT ![id] = NoCaptureEntry]
  /\ lastOp' = [NoOp EXCEPT !.op = "invalidateChartCache", !.id = id,
                            !.element = chartElementCache[id].g,
                            !.result = captureCache[id].result]
  /\ calls' = MarkInvalidated({id})
  /\ UNCHANGED <<auxVars, ext, pdf, impl, now, ticks, dom, domGen, canvasPool,
                 nextSerial>>

\* cleanupChartPrintResources / clearAllCaches
ClearAllCaches ==
  /\ chartElementCache' = [w \in Ids |-> NoElementEntry]
  /\ captureCache' = [w \in Ids |-> NoCaptureEntry]
  /\ refElementCache' = [w \in Ids |-> NoElementEntry]
  /\ refCaptureCache' = [w \in Ids |-> NoCaptureEntry]
  /\ canvasPool' = <<>>
  /\ lastOp' = EnvOp("clearAllCaches", "")
  /\ calls' = MarkInvalidated(Ids)
  /\ UNCHANGED <<auxVars, ext, pdf, impl, now, ticks, dom, domGen, nextSerial>>

\* the periodic cleanExpiredCache (setInterval, 60 s, of unknown phase: it may
\* fire between any two steps); the reference run has no sweep
CleanExpiredCache ==
  /\ chartElementCache' = SweepElements(chartElementCache, now)
  /\ captureCache' = SweepCaptures(captureCache, now)
  /\ lastOp' = EnvOp("cleanExpiredCache", "")
  /\ UNCHANGED <<auxVars, ext, pdf, impl, now, ticks, dom, domGen, canvasPool, calls, nextSerial,
                 refElementCache, refCaptureCache>>

Faults == {NoThrow} \cup Throwables

\* what the environment does to the synchronous part of one capture: the
\* store access fails, or technique 1 finds no canvas / raises / finds a canvas
\* and toDataURL then succeeds or raises
Scenarios ==
  {[fault |-> f, found |-> "none", urlFault |-> NoThrow] : f \in Faults}
  \cup {[fault |-> NoThrow, found |-> "error", urlFault |-> NoThrow]}
  \cup {[fault |-> NoThrow, found |-> "match", urlFault |-> f] : f \in Faults}
  \cup {[fault |-> NoThrow, found |-> "resize", urlFault |-> NoThrow]}

\* the calls of the public functions with identifiers drawn from I
Calls(I) ==
  \/ \E w \in Mountable \cap I : Mount(w)
  \/ \E w \in Mountable \cap I : Unmount(w)
  \/ \E id \in I : GetElement(id)
  \/ \E s \in Slots, id \in I, o \in OptionSet, force \in BOOLEAN,
        sc \in Scenarios : CaptureStart(s, id, o, force, sc)
  \/ \E s \in Slots, h2c \in {"ok", "resize", "throw"}, svg \in BOOLEAN,
        urlFault \in Faults : Html2CanvasSettles(s, h2c, svg, urlFault)
  \/ \E s \in Slots, loaded \in BOOLEAN, urlFault \in Faults :
        SvgImageSettles(s, loaded, urlFault)
  \/ \E id \in I : InvalidateChartCache(id)
  \/ ClearAllCaches
  \/ CleanExpiredCache

\* one chart identifier and an unregistered one, with the clock
Next ==
  \/ \E d \in TickSteps : Tick(d)
  \/ Calls(TimedIds)

Spec == Init /\ [][Next]_vars

\* all identifiers, at one instant of the clock
NextMulti == Calls(Ids)

SpecMulti == Init /\ [][NextMulti]_vars

\* what the environment does to the synchronous part of a capture when two
\* calls interleave: technique 1 finds no canvas, raises, or finds a canvas of
\* the target size
InterleaveScenarios ==
  {[fault |-> NoThrow, found |-> f, urlFault |-> NoThrow] :
     f \in {"none", "error", "match"}}

\* two calls of captureChartAsImage in flight together, for the two chart
\* identifiers or for the same one, at one instant of the clock
NextInterleave ==
  \/ \E w \in ChartIds : Mount(w)
  \/ \E w \in ChartIds : Unmount(w)
  \/ \E s \in CallSlots, id \in ChartIds, force \in BOOLEAN,
        sc \in InterleaveScenarios :
        CaptureStart(s, id, "1200x800", force, sc)
  \/ \E s \in CallSlots, h2c \in {"ok", "throw"}, svg \in BOOLEAN :
        Html2CanvasSettles(s, h2c, svg, NoThrow)
  \/ \E s \in CallSlots, loaded \in BOOLEAN :
        SvgImageSettles(s, loaded, NoThrow)
  \/ \E id \in ChartIds : InvalidateChartCache(id)

SpecInterleave == Init /\ [][NextInterleave]_vars

(***************************************************************************)
(* Specification of the widget locator                                     *)
(***************************************************************************)
\* a call of the exported getChartWidgetInfo(id); a failure of
\* getAppStore().getState() is caught by widget-utils.ts (null) and escapes
\* from chart-print-service.ts
GetWidgetInfo(id, fault) ==
  /\ lastOp' = [NoOp EXCEPT !.op = "getChartWidgetInfo", !.id = id,
                            !.returned = (impl = "modular" \/ ~fault.thrown),
                            !.info = IF fault.thrown THEN "none"
                                     ELSE getChartWidgetInfo(id)]
  /\ UNCHANGED <<auxVars, ext, pdf, impl, now, ticks, dom, domGen, chartElementCache,
                 captureCache, canvasPool, calls, nextSerial, refElementCache,
                 refCaptureCache>>

\* the locator at one instant of the clock; the document may hold an element
\* that the selectors built from an identifier match whether or not the
\* identifier is a key of the registry
NextLocate ==
  \/ \E w \in Ids : Mount(w)
  \/ \E w \in Ids : Unmount(w)
  \/ \E id \in Ids : GetElement(id)
  \/ \E id \in Ids, fault \in Faults : GetWidgetInfo(id, fault)

SpecLocate == Init /\ [][NextLocate]_vars

(***************************************************************************)
(* Specification of the data extractor                                     *)
(***************************************************************************)
\* the host has rendered the containers of the widgets in M
InitExtract ==
  /\ impl = "service"
  /\ now = 0
  /\ ticks = 0
  /\ \E M \in SUBSET TimedIds :
       /\ dom = [w \in Ids |-> IF w \in M THEN 1 ELSE 0]
       /\ domGen = [w \in Ids |-> IF w \in M THEN 1 ELSE 0]
  /\ chartElementCache = [w \in Ids |-> NoElementEntry]
  /\ captureCache = [w \in Ids |-> NoCaptureEntry]
  /\ canvasPool = <<>>
  /\ calls = [s \in CallSlots |-> IdleCall]
  /\ nextSerial = 1
  /\ lastOp = NoOp
  /\ refElementCache = [w \in Ids |-> NoElementEntry]
  /\ refCaptureCache = [w \in Ids |-> NoCaptureEntry]
  /\ ext = IdleExt
  /\ pdf = IdlePdf
  /\ AuxIdle

\* extractChartDataComplete(id) calls extractChartData(id), which runs up to
\* ds.query or to its return; cfg is the registered configuration, sc what the
\* output data source does, useFound whether the upstream data source exists,
\* R the records an accessor returns
ExtractStart(id) ==
  /\ ext.pc = "idle"
  /\ \E cfg \in WidgetConfigs, schema \in Schemas, sc \in OutputScenarios,
        useFound \in BOOLEAN, R \in RecordSeqs :
     LET info == IF getChartWidgetInfo(id) = "none" THEN NoInfo ELSE cfg
         recs == OutputRecords(info, sc, R)
         tried1 == IF info.outputDataSources # <<>>
                   THEN {info.outputDataSources[1]} ELSE {}
         useNext == recs = <<>> /\ info.useDataSources # <<>>
         tried == tried1 \cup (IF useNext THEN {info.useDataSources[1]}
                               ELSE {})
         e == [IdleExt EXCEPT !.id = id, !.info = info,
                              !.trace = <<"extractChartData">>]
     IN ext' =
          IF ~info.registered
          THEN [e EXCEPT !.pc = "settled",
                         !.queryResult = ExtractionFailure(
                            ExtractionError("Widget Chart non trouve", "", ""))]
          ELSE IF useNext /\ useFound
          THEN [e EXCEPT !.pc = "query", !.attempted = tried]
          ELSE [e EXCEPT !.pc = "settled", !.attempted = tried,
                         !.allRecords = recs,
                         !.schema = IF recs # <<>> THEN schema ELSE <<>>,
                         !.queryResult = TransformRecords(info, schema, recs)]
  /\ UNCHANGED <<cacheVars, pdf, auxVars>>

\* ds.query settles and extractChartData runs to its return
QuerySettles ==
  /\ ext.pc = "query"
  /\ \E sc \in UseScenarios, schema \in Schemas, R \in RecordSeqs :
     \E u \in {UseRecords(sc, R)} :
       ext' = [ext EXCEPT
                 !.pc = "settled",
                 !.allRecords = u.records,
                 !.schema = IF u.records # <<>> THEN schema ELSE <<>>,
                 !.queryResult =
                    IF u.thrown
                    THEN ExtractionFailure(ExtractionError("exception", "", ""))
                    ELSE TransformRecords(ext.info, schema, u.records)]
  /\ UNCHANGED <<cacheVars, pdf, auxVars>>

\* extractChartDataComplete resumes with the result of extractChartData and
\* runs to its return; sc is the legend the document holds
ExtractResume ==
  /\ ext.pc = "settled"
  /\ IF HasData(ext.queryResult)
     THEN /\ ext' = [ext EXCEPT !.pc = "done", !.result = ext.queryResult]
          /\ UNCHANGED chartElementCache
     ELSE \E sc \in DomScenarios :
          \E ge \in {getChartElement("service", ext.id, chartElementCache,
                                     dom, now)} :
          \E r \in {extractChartDataFromDOM(ge.element, sc)} :
            /\ chartElementCache' = ge.cache
            /\ ext' = [ext EXCEPT
                         !.pc = "done",
                         !.legend = IF ge.element # 0 THEN sc ELSE @,
                         !.domResult = r,
                         !.trace = IF HasData(r)
                                   THEN Append(@, "extractChartDataFromDOM")
                                   ELSE @ \o <<"extractChartDataFromDOM",
                                               "report">>,
                         !.result = IF HasData(r) THEN r
                                    ELSE FailureReport(ext.info)]
  /\ UNCHANGED <<auxVars, pdf, impl, now, ticks, dom, domGen, captureCache, canvasPool,
                 calls, nextSerial, lastOp, refElementCache, refCaptureCache>>

NextExtract ==
  \/ \E id \in TimedIds : ExtractStart(id)
  \/ QuerySettles
  \/ ExtractResume

SpecExtract == InitExtract /\ [][NextExtract]_vars

(***************************************************************************)
(* Specification of the professional PDF composer                          *)
(***************************************************************************)
InitPdf ==
  /\ impl = "service"
  /\ now = 0
  /\ ticks = 0
  /\ dom = [w \in Ids |-> 0]
  /\ domGen = [w \in Ids |-> 0]
  /\ chartElementCache = [w \in Ids |-> NoElementEntry]
  /\ captureCache = [w \in Ids |-> NoCaptureEntry]
  /\ canvasPool = <<>>
  /\ calls = [s \in CallSlots |-> IdleCall]
  /\ nextSerial = 1
  /\ lastOp = NoOp
  /\ refElementCache = [w \in Ids |-> NoElementEntry]
  /\ refCaptureCache = [w \in Ids |-> NoCaptureEntry]
  /\ ext = IdleExt
  /\ pdf = IdlePdf
  /\ AuxIdle

\* a step of the composer changes the export in progress only
PdfBecomes(p) ==
  /\ pdf' = p
  /\ UNCHANGED <<cacheVars, ext, auxVars>>

\* generateProfessionalChartPdf(id, options), called directly or by
\* generateAndDownloadProfessionalChartPdf: the timer is armed and the
\* initialisation is notified
PdfStart(wrapper, onProgress, showLegend) ==
  /\ pdf.pc = "idle"
  /\ LET p0 == [IdlePdf EXCEPT !.wrapper = wrapper,
                               !.onProgress = onProgress,
                               !.showLegend = showLegend]
         p1 == IF wrapper THEN Notify(p0, "download", 0) ELSE p0
         p2 == [p1 EXCEPT !.timer = "armed"]
     IN PdfBecomes([Notify(p2, "init", 0) EXCEPT !.pc = "init"])

\* the setTimeout callback runs: the timeout promise is rejected, which ends
\* the call only while it awaits Promise.race
PdfTimeoutFires ==
  /\ pdf.timer = "armed"
  /\ pdf.pc # "idle"
  /\ LET p == [pdf EXCEPT !.timer = "fired"]
     IN PdfBecomes(IF pdf.pc = "race" THEN PdfCatch(p) ELSE p)

PdfInitYielded ==
  /\ pdf.pc = "init"
  /\ PdfBecomes([Notify(pdf, "capture", 10) EXCEPT !.pc = "capture"])

\* captureChartAsImage is called and raced against the timeout promise; a
\* capture that returned without suspending (settled) wins the race even
\* against a timeout promise that is already rejected
PdfCaptureCalled(settled, success) ==
  /\ pdf.pc = "capture"
  /\ LET captured == [Notify(pdf, "capture", 30)
                        EXCEPT !.pc = "captured",
                               !.capture = IF success THEN "success"
                                           ELSE "failure"]
     IN PdfBecomes(IF settled THEN captured
                   ELSE IF pdf.timer = "fired" THEN PdfCatch(pdf)
                   ELSE [pdf EXCEPT !.pc = "race"])

\* the capture settles while the call awaits the race
PdfCaptureSettles(success) ==
  /\ pdf.pc = "race"
  /\ PdfBecomes([Notify(pdf, "capture", 30)
                   EXCEPT !.pc = "captured",
                          !.capture = IF success THEN "success"
                                      ELSE "failure"])

PdfCaptured ==
  /\ pdf.pc = "captured"
  /\ PdfBecomes([Notify(pdf, "data", 35) EXCEPT !.pc = "data"])

\* extractChartDataComplete settles with or without records
PdfDataExtracted(records) ==
  /\ pdf.pc = "data"
  /\ PdfBecomes([Notify(pdf, "pdf", 45)
                   EXCEPT !.pc = "pdf",
                          !.data = IF records THEN "records" ELSE "empty"])

\* new jsPDF, border, header, title; throws tells whether a jsPDF call raises
PdfDocumentCreated(throws) ==
  /\ pdf.pc = "pdf"
  /\ PdfBecomes(IF throws THEN PdfCatch(pdf)
                ELSE [Notify(pdf, "image", 50) EXCEPT !.pc = "image"])

\* the image is loaded, or the text "Graphique non disponible" is drawn
PdfImageProcessed(throws) ==
  /\ pdf.pc = "image"
  /\ PdfBecomes(IF pdf.capture = "success"
                THEN [Notify(pdf, "image", 60) EXCEPT !.pc = "addImage"]
                ELSE IF throws THEN PdfCatch(pdf)
                ELSE [pdf EXCEPT !.pc = "legend"])

\* pdf.addImage
PdfImageAdded(throws) ==
  /\ pdf.pc = "addImage"
  /\ PdfBecomes(IF throws THEN PdfCatch(pdf)
                ELSE [pdf EXCEPT !.pc = "legend"])

\* the legend is drawn only when asked for and when there are records
PdfLegendStarted ==
  /\ pdf.pc = "legend"
  /\ PdfBecomes(IF pdf.showLegend /\ pdf.data = "records"
                THEN [Notify(pdf, "legend", 70) EXCEPT !.pc = "legendDraw"]
                ELSE [Notify(pdf, "footer", 85) EXCEPT !.pc = "footer"])

PdfLegendDrawn(throws) ==
  /\ pdf.pc = "legendDraw"
  /\ PdfBecomes(IF throws THEN PdfCatch(pdf)
                ELSE [Notify(pdf, "footer", 85) EXCEPT !.pc = "footer"])

\* the footer is drawn, the timer is cleared and completion is notified
PdfFooterDrawn(throws) ==
  /\ pdf.pc = "footer"
  /\ PdfBecomes(IF throws THEN PdfCatch(pdf)
                ELSE [Notify(ClearTimeout(pdf), "complete", 100)
                        EXCEPT !.pc = "complete"])

\* return pdf.output("blob"): the serialisation of a document whose drawing
\* calls all succeeded returns a blob
PdfOutput ==
  /\ pdf.pc = "complete"
  /\ PdfBecomes([pdf EXCEPT !.result = "blob",
                            !.pc = IF pdf.wrapper THEN "download"
                                   ELSE "done"])

\* generateAndDownloadProfessionalChartPdf downloads the blob
PdfDownloaded ==
  /\ pdf.pc = "download"
  /\ PdfBecomes([Notify(pdf, "download", 100)
                   EXCEPT !.pc = "done", !.downloaded = "true"])

NextPdf ==
  \/ \E wrapper \in BOOLEAN, onProgress \in BOOLEAN, showLegend \in BOOLEAN :
        PdfStart(wrapper, onProgress, showLegend)
  \/ PdfTimeoutFires
  \/ PdfInitYielded
  \/ \E settled \in BOOLEAN, success \in BOOLEAN :
        PdfCaptureCalled(settled, success)
  \/ \E success \in BOOLEAN : PdfCaptureSettles(success)
  \/ PdfCaptured
  \/ \E records \in BOOLEAN : PdfDataExtracted(records)
  \/ \E throws \in BOOLEAN : PdfDocumentCreated(throws)
  \/ \E throws \in BOOLEAN : PdfImageProcessed(throws)
  \/ \E throws \in BOOLEAN : PdfImageAdded(throws)
  \/ PdfLegendStarted
  \/ \E throws \in BOOLEAN : PdfLegendDrawn(throws)
  \/ \E throws \in BOOLEAN : PdfFooterDrawn(throws)
  \/ PdfOutput
  \/ PdfDownloaded

SpecPdf == InitPdf /\ [][NextPdf]_vars

(***************************************************************************)
(* Specification of the legend, complete and multi-chart composers         *)
(***************************************************************************)
\* a step of these composers changes the call in progress only
DocBecomes(d) ==
  /\ doc' = d
  /\ UNCHANGED <<cacheVars, ext, pdf, layout, held, print, pureVars>>

\* generateChartPdfWithFullLegend(id, options) runs up to the await of
\* extractChartDataComplete
FullLegendStart ==
  /\ doc.pc = "idle"
  /\ DocBecomes([doc EXCEPT !.pc = "extract", !.composer = "fullLegend"])

\* generateCompleteChartPdf(id, options, includeDataTable) runs up to the
\* await of captureChartAsImage
CompleteStart(includeDataTable) ==
  /\ doc.pc = "idle"
  /\ DocBecomes([doc EXCEPT !.pc = "capture", !.composer = "complete",
                            !.includeDataTable = includeDataTable])

\* extractChartDataComplete settles, with records or without; without
\* records the legend composer returns generateChartPdf(id, options)
DocDataExtracted(records) ==
  /\ doc.pc = "extract"
  /\ DocBecomes(
       IF doc.composer = "complete"
       THEN [doc EXCEPT !.pc = "draw",
                        !.data = IF records THEN "records" ELSE "empty"]
       ELSE IF records
       THEN [doc EXCEPT !.pc = "graphic", !.data = "records"]
       ELSE [doc EXCEPT !.pc = "capture", !.data = "empty",
                        !.fallback = TRUE])

\* captureChartGraphicOnly settles; on a failure the legend composer awaits
\* captureChartAsImage
DocGraphicCaptured(success) ==
  /\ doc.pc = "graphic"
  /\ DocBecomes(IF success
                THEN [doc EXCEPT !.pc = "draw", !.capture = "success"]
                ELSE [doc EXCEPT !.pc = "capture"])

\* captureChartAsImage settles (it never rejects); generateChartPdf returns
\* null on a failure
DocCaptured(success) ==
  /\ doc.pc = "capture"
  /\ DocBecomes(
       LET d == [doc EXCEPT !.capture = IF success THEN "success"
                                        ELSE "failure"]
       IN IF doc.composer = "complete" THEN [d EXCEPT !.pc = "extract"]
          ELSE IF doc.fallback /\ ~success THEN DocCatch(d)
          ELSE [d EXCEPT !.pc = "draw"])

\* the document is created, drawn and serialized; throws tells that a jsPDF
\* call raised. The image is added when the capture succeeded and nothing is
\* drawn in its place otherwise
DocDrawn(throws) ==
  /\ doc.pc = "draw"
  /\ DocBecomes(
       IF throws THEN DocCatch(doc)
       ELSE [doc EXCEPT
               !.pc = "done",
               !.image = (doc.capture = "success"),
               !.placeholder = FALSE,
               !.legend = (doc.composer = "fullLegend" /\ ~doc.fallback),
               !.table = (doc.composer = "complete" /\ doc.includeDataTable
                          /\ doc.data = "records"),
               !.result = "blob"])

\* generateMultiChartPdf(chartWidgetIds, options) runs up to the await of the
\* first capture; missing stands for a null or undefined list
MultiStart(missing, ids) ==
  /\ doc.pc = "idle"
  /\ DocBecomes(
       IF missing \/ Len(ids) = 0
       THEN [doc EXCEPT !.pc = "done", !.composer = "multi",
                        !.result = "null"]
       ELSE [doc EXCEPT !.pc = "multiCapture", !.composer = "multi",
                        !.chartWidgetIds = ids, !.i = 0,
                        !.pages = MultiAddPage(0, 1)])

\* the capture of chart i settles: on a failure the page stays empty, on a
\* success the title, the image and the footer are drawn (throws: a jsPDF
\* call raised); then the loop adds the page of the next chart and awaits its
\* capture, or the document is serialized
MultiCaptured(success, throws) ==
  /\ doc.pc = "multiCapture"
  /\ DocBecomes(
       LET d == [doc EXCEPT !.captured = Append(@, success), !.i = @ + 1]
       IN IF success /\ throws THEN DocCatch(d)
          ELSE IF d.i < Len(doc.chartWidgetIds)
          THEN [d EXCEPT !.pages = MultiAddPage(d.i, doc.pages)]
          ELSE [d EXCEPT !.pc = "done", !.result = "blob"])

NextCompose ==
  \/ FullLegendStart
  \/ \E includeDataTable \in BOOLEAN : CompleteStart(includeDataTable)
  \/ \E records \in BOOLEAN : DocDataExtracted(records)
  \/ \E success \in BOOLEAN : DocGraphicCaptured(success)
  \/ \E success \in BOOLEAN : DocCaptured(success)
  \/ \E throws \in BOOLEAN : DocDrawn(throws)
  \/ \E missing \in BOOLEAN, ids \in ChartIdLists : MultiStart(missing, ids)
  \/ \E success \in BOOLEAN, throws \in BOOLEAN :
        MultiCaptured(success, throws)

SpecCompose == InitPdf /\ [][NextCompose]_vars

(***************************************************************************)
(* Specification of the legend loop                                        *)
(***************************************************************************)
\* the legend block is entered with n > 0 records and legendColumns columns
LegendStart(n, legendColumns) ==
  /\ layout.pc = "idle"
  /\ layout' = [IdleLayout EXCEPT !.pc = "loop", !.n = n,
                                  !.legendColumns = legendColumns]
  /\ UNCHANGED <<cacheVars, ext, pdf, doc, held, print, pureVars>>

\* one iteration of the loop draws item i at its column and row
LegendItemDrawn ==
  /\ layout.pc = "loop"
  /\ layout.i < layout.n
  /\ layout' = [layout EXCEPT
                  !.cells = Append(@, LegendCell(layout.i, layout.n,
                                                 layout.legendColumns)),
                  !.i = @ + 1]
  /\ UNCHANGED <<cacheVars, ext, pdf, doc, held, print, pureVars>>

\* the loop ends
LegendDone ==
  /\ layout.pc = "loop"
  /\ layout.i >= layout.n
  /\ layout' = [layout EXCEPT !.pc = "done"]
  /\ UNCHANGED <<cacheVars, ext, pdf, doc, held, print, pureVars>>

NextLegend ==
  \/ \E n \in 1..MaxItems, c \in 1..MaxColumns : LegendStart(n, c)
  \/ LegendItemDrawn
  \/ LegendDone

SpecLegend == InitPdf /\ [][NextLegend]_vars

(***************************************************************************)
(* Specification of the canvas pool                                        *)
(***************************************************************************)
\* a call of getPooledCanvas(width, height); the caller keeps the canvas
PoolGet ==
  /\ Len(held) < MaxHeld
  /\ \E r \in {getPooledCanvas(canvasPool)} :
       /\ canvasPool' = r.pool
       /\ held' = Append(held, r.canvas)
       /\ lastOp' = [NoOp EXCEPT !.op = "getPooledCanvas",
                                 !.returned = TRUE,
                                 !.popped = IF Len(canvasPool) > 0
                                            THEN r.popped.pixels ELSE "none"]
  /\ UNCHANGED <<impl, now, ticks, dom, domGen, chartElementCache,
                 captureCache, calls, nextSerial, refElementCache,
                 refCaptureCache, ext, pdf, doc, layout, print, pureVars>>

\* the holder of canvas k draws on it through a context of the given type;
\* getContext answers null when the canvas has a context of another type
PoolDraw(k, type) ==
  /\ k \in DOMAIN held
  /\ held[k].context \in {"none", type}
  /\ held' = [held EXCEPT ![k] = [context |-> type, pixels |-> "drawn"]]
  /\ lastOp' = HostOp
  /\ UNCHANGED <<impl, now, ticks, dom, domGen, chartElementCache,
                 captureCache, canvasPool, calls, nextSerial, refElementCache,
                 refCaptureCache, ext, pdf, doc, layout, print, pureVars>>

\* a call of returnCanvasToPool(canvas) by the holder of canvas k, who then
\* forgets it
PoolReturn(k) ==
  /\ k \in DOMAIN held
  /\ canvasPool' = returnCanvasToPool(canvasPool, held[k])
  /\ held' = [j \in 1..(Len(held) - 1) |->
                IF j < k THEN held[j] ELSE held[j + 1]]
  /\ lastOp' = EnvOp("returnCanvasToPool", "")
  /\ UNCHANGED <<impl, now, ticks, dom, domGen, chartElementCache,
                 captureCache, calls, nextSerial, refElementCache,
                 refCaptureCache, ext, pdf, doc, layout, print, pureVars>>

NextPool ==
  \/ PoolGet
  \/ \E k \in 1..MaxHeld, type \in {"2d", "webgl"} : PoolDraw(k, type)
  \/ \E k \in 1..MaxHeld : PoolReturn(k)
  \/ ClearAllCaches

SpecPool == InitPdf /\ [][NextPool]_vars

(***************************************************************************)
(* Specification of printChartOnly                                         *)
(***************************************************************************)
\* a call of printChartOnly runs up to its first await or to its return;
\* opened tells whether window.open answers a window
PrintStart(element, elementTitle, title, outputFormat, opened) ==
  /\ print.pc \in {"idle", "done"}
  /\ print.serial < MaxPrints
  /\ \E e \in {PrintEnter([IdlePrint EXCEPT !.element = element,
                                            !.elementTitle = elementTitle,
                                            !.title = title,
                                            !.outputFormat = outputFormat,
                                            !.downloads = print.downloads,
                                            !.serial = print.serial + 1],
                           outputFormat)} :
       print' = IF e.pc = "open" THEN OpenPrintWindow(e, opened) ELSE e
  /\ UNCHANGED <<cacheVars, ext, pdf, doc, layout, held, pureVars>>

\* the image settles and the pdf path runs to its end: the load fails, or a
\* jsPDF call raises (throws), or the document is serialized and downloaded;
\* the catch block rethrows
PrintImageSettles(loaded, throws) ==
  /\ print.pc = "imgload"
  /\ print' =
       IF ~loaded
       THEN PrintRejected([print EXCEPT !.image = "error"],
                          "Echec du chargement de l'image")
       ELSE IF throws
       THEN PrintRejected([print EXCEPT !.image = "loaded"], "jsPDF")
       ELSE PrintResolved([print EXCEPT
                             !.image = "loaded",
                             !.downloads =
                               Append(@, <<DisplayTitle(print), "pdf">>)],
                          "blob:pdf", TRUE)
  /\ UNCHANGED <<cacheVars, ext, pdf, doc, layout, held, pureVars>>

NextPrint ==
  \/ \E element \in PrintElements, elementTitle \in PrintTitles,
        title \in PrintTitleArgs, outputFormat \in {"pdf", "png", "print"},
        opened \in BOOLEAN :
        PrintStart(element, elementTitle, title, outputFormat, opened)
  \/ \E loaded \in BOOLEAN, throws \in BOOLEAN :
        PrintImageSettles(loaded, throws)

SpecPrint == InitPdf /\ [][NextPrint]_vars

(***************************************************************************)
(* Specification of validateChartPrintOptions                              *)
(***************************************************************************)
\* a call of validateChartPrintOptions(options)
Validate(options) ==
  /\ \E r \in {validateChartPrintOptions(options)} :
       validation' = [called |-> TRUE, options |-> options,
                      valid |-> r.valid, errors |-> r.errors]
  /\ UNCHANGED <<cacheVars, ext, pdf, doc, layout, held, print, template,
                 loop>>

NextValidate == \E options \in PrintOptionValues : Validate(options)

SpecValidate == InitPdf /\ [][NextValidate]_vars

(***************************************************************************)
(* Specification of addChartToTemplate                                     *)
(***************************************************************************)
\* a call of addChartToTemplate: before and after are the content of the
\* argument object before and after the call
AddChart(printTemplateProperties, chartElement) ==
  /\ \E r \in {addChartToTemplate(printTemplateProperties, chartElement)} :
       template' = [called |-> TRUE, before |-> printTemplateProperties,
                    chartElement |-> chartElement, returned |-> r.returned,
                    result |-> r.result, after |-> r.input]
  /\ UNCHANGED <<cacheVars, ext, pdf, doc, layout, held, print, validation,
                 loop>>

NextTemplate ==
  \E printTemplateProperties \in TemplateValues,
     chartElement \in ChartElements :
     AddChart(printTemplateProperties, chartElement)

SpecTemplate == InitPdf /\ [][NextTemplate]_vars

(***************************************************************************)
(* Specification of the item loops                                         *)
(***************************************************************************)
\* a composer reaches its loop over n items
LoopStart(kind, n, chunkSize) ==
  /\ loop.pc \in {"idle", "done"}
  /\ kind = "professional" => n > 0
  /\ loop' = [IdleLoop EXCEPT !.pc = IF n = 0 THEN "done" ELSE "run",
                              !.kind = kind, !.n = n,
                              !.chunkSize = chunkSize]
  /\ UNCHANGED <<cacheVars, ext, pdf, doc, layout, held, print, validation,
                 template>>

\* one iteration: the item of index loop.i is drawn (or processed), and the
\* function either awaits yieldToMain or goes on with the next item
LoopItem ==
  /\ loop.pc = "run"
  /\ loop' = [loop EXCEPT
                !.i = @ + 1,
                !.sinceYield = @ + 1,
                !.pc = IF YieldsAfter(loop.kind, loop.i, loop.n, loop.chunkSize)
                       THEN "yield"
                       ELSE IF loop.i + 1 = loop.n THEN "done" ELSE "run"]
  /\ UNCHANGED <<cacheVars, ext, pdf, doc, layout, held, print, validation,
                 template>>

\* the host event loop has run and the promise of yieldToMain resolves
LoopResumes ==
  /\ loop.pc = "yield"
  /\ loop' = [loop EXCEPT !.sinceYield = 0, !.yields = @ + 1,
                          !.pc = IF loop.i = loop.n THEN "done" ELSE "run"]
  /\ UNCHANGED <<cacheVars, ext, pdf, doc, layout, held, print, validation,
                 template>>

NextLoop ==
  \/ \E kind \in LoopKinds \ {"executeInChunks"}, n \in 0..MaxLoopItems :
        LoopStart(kind, n, 0)
  \/ \E n \in 0..MaxLoopItems, chunkSize \in ChunkSizes :
        LoopStart("executeInChunks", n, chunkSize)
  \/ LoopItem
  \/ LoopResumes

SpecLoop == InitPdf /\ [][NextLoop]_vars

(***************************************************************************)
(* Claims on the cache layer and the capture engine                        *)
(***************************************************************************)
IsCapture(op) == op.op = "captureChartAsImage"

IsCaptureReturn(op) ==
  op.op \in {"captureChartAsImage", "captureResume"} /\ op.returned

\* C1: a captureChartAsImage(id) call without forceRefresh that finds a result
\* cached for id less than 5000 ms ago returns that very result object and
\* performs no widget lookup, no element lookup and no rasterization; the
\* cached object is the one the storing capture returned.
CaptureCacheHit ==
  /\ [][\A id \in Ids :
          (/\ IsCapture(lastOp') /\ lastOp'.id = id /\ ~lastOp'.force
           /\ captureCache[id].result.defined
           /\ now - captureCache[id].timestamp < 5000)
          => /\ lastOp'.returned
             /\ lastOp'.result = captureCache[id].result
             /\ lastOp'.result.success
             /\ lastOp'.effects = {}
             /\ UNCHANGED <<chartElementCache, captureCache, canvasPool,
                            calls, nextSerial>>]_vars
  /\ [][(/\ IsCaptureReturn(lastOp') /\ lastOp'.result.success
          /\ "rasterization" \in lastOp'.effects \cup
                (IF lastOp'.op = "captureResume" THEN {"rasterization"} ELSE {}))
         => captureCache'[lastOp'.id] =
              [result |-> lastOp'.result, timestamp |-> now']]_vars

\* C1 witness: a capture was served from the cache 1..4999 ms after the
\* result was stored
CaptureCacheHitWitness ==
  /\ IsCapture(lastOp) /\ lastOp.returned /\ lastOp.result.success
  /\ lastOp.effects = {}
  /\ now - captureCache[lastOp.id].timestamp \in 1..4999

\* C2: every failing captureChartAsImage call resolves to success=false with
\* a non-empty error string.
CaptureFailureHasMessage ==
  (IsCaptureReturn(lastOp) /\ ~lastOp.result.success)
  => lastOp.result.error # ""

\* C8: getChartElement never returns from the cache an element that is
\* detached or whose entry is 30000 ms old or older, and a read that finds the
\* cached element detached leaves no entry holding that element.
ElementCacheReadPath ==
  [][\A id \in Ids :
       (lastOp'.op = "getChartElement" /\ lastOp'.id = id)
       => /\ lastOp'.via = "cache"
               => /\ dom[id] = lastOp'.element
                  /\ chartElementCache[id].g = lastOp'.element
                  /\ now - chartElementCache[id].timestamp < 30000
          /\ (/\ chartElementCache[id].g # 0
              /\ now - chartElementCache[id].timestamp < 30000
              /\ dom[id] # chartElementCache[id].g)
               => chartElementCache'[id].g # chartElementCache[id].g]_vars

SweepIsOptimization ==
  /\ [](lastOp.refAgree)
  /\ []((IsCapture(lastOp) /\ lastOp.returned /\ lastOp.effects = {})
         => now - captureCache[lastOp.id].timestamp < 5000)
  /\ []((lastOp.op = "getChartElement" /\ lastOp.via = "cache")
         => now - chartElementCache[lastOp.id].timestamp < 30000)
  /\ [][lastOp'.op = "cleanExpiredCache"
        => \A id \in Ids :
             /\ captureCache'[id] # captureCache[id]
                  => now - captureCache[id].timestamp >= 5000
             /\ chartElementCache'[id] # chartElementCache[id]
                  => now - chartElementCache[id].timestamp >= 30000]_vars

\* C10 witness: after the sweep removed an expired capture entry that the
\* reference run still holds, a capture of that identifier ran
SweepIsOptimizationWitness ==
  /\ IsCapture(lastOp)
  /\ refCaptureCache[lastOp.id].result.defined
  /\ ~captureCache[lastOp.id].result.defined

(***************************************************************************)
(* Claims on the data extractor                                            *)
(***************************************************************************)
QueryHasRecords == ext.queryResult.success /\ Len(ext.queryResult.data) > 0

DomHasRecords == ext.domResult.success /\ Len(ext.domResult.data) > 0

\* C3: extractChartDataComplete runs extractChartData first; when that yields
\* a non-empty dataset it is the result and the DOM strategy is not invoked;
\* the DOM strategy is invoked only after extractChartData settled without
\* records, and then it is invoked; the failure report is produced only after
\* both strategies yielded nothing.
ExtractionOrder ==
  /\ ext.pc # "idle" => ext.trace[1] = "extractChartData"
  /\ ext.pc \in {"query", "settled"} => ext.trace = <<"extractChartData">>
  /\ \A i \in DOMAIN ext.trace :
       /\ ext.trace[i] = "extractChartDataFromDOM"
            => i = 2 /\ ext.queryResult.defined /\ ~QueryHasRecords
       /\ ext.trace[i] = "report"
            => /\ i = 3
               /\ ext.queryResult.defined /\ ~QueryHasRecords
               /\ ext.domResult.defined /\ ~DomHasRecords
  /\ ext.pc = "done" =>
       IF QueryHasRecords
       THEN ext.result = ext.queryResult /\ ext.trace = <<"extractChartData">>
       ELSE IF DomHasRecords
       THEN /\ ext.result = ext.domResult
            /\ ext.trace = <<"extractChartData", "extractChartDataFromDOM">>
       ELSE /\ ~ext.result.success
            /\ ext.trace = <<"extractChartData", "extractChartDataFromDOM",
                             "report">>

\* the query strategy returned records while the document held a legend
\* container, and the call returned them
ExtractionOrderWitness ==
  /\ ext.pc = "done"
  /\ QueryHasRecords
  /\ ext.result = ext.queryResult
  /\ dom[ext.id] # 0
  /\ ext.attempted = {"out1", "in1"}

\* the categories of the source records under field f, and of the legend
SourceCategories(f) ==
  {Field(ext.allRecords[k], ext.schema, f) : k \in DOMAIN ext.allRecords}

LegendCategories == {Str(ext.legend.items[k].label) : k \in DOMAIN ext.legend.items}

RECURSIVE SumValues(_)
SumValues(data) ==
  IF data = <<>> THEN 0 ELSE data[1].value + SumValues(Tail(data))

\* the sum of the value field (read as parseFloat(x) || 0) over the source
\* records whose category is in the set kinds of value kinds
RECURSIVE SumRaw(_, _, _, _, _)
SumRaw(recs, schema, cf, vf, kinds) ==
  IF recs = <<>> THEN 0
  ELSE (IF Field(recs[1], schema, cf).t \in kinds
        THEN ParseFloatOrZero(Field(recs[1], schema, vf)) ELSE 0)
       + SumRaw(Tail(recs), schema, cf, vf, kinds)

\* the declared category/value fields exist in the records and were used
KnownFieldPair ==
  /\ ext.info.categoryField # ""
  /\ ext.info.valueField # ""
  /\ ext.queryResult.categoryField = ext.info.categoryField
  /\ ext.queryResult.valueField = ext.info.valueField

\* C5 as stated: with a known category/value field pair, the sum of value
\* over the extracted records equals the sum of the value field over all
\* source records.
AggregationSumAllRecords ==
  (ext.queryResult.success /\ KnownFieldPair) =>
     SumValues(ext.queryResult.data)
       = SumRaw(ext.allRecords, ext.schema, ext.queryResult.categoryField,
                ext.queryResult.valueField,
                {"num", "str", "null", "undefined"})

\* C5 amended: the sum of value over the extracted records equals the sum of
\* the value field over the source records whose category is neither null
\* nor undefined (the records without category are left out); no other
\* record's value is lost or counted twice.
AggregationSumCategorized ==
  ext.queryResult.success =>
     SumValues(ext.queryResult.data)
       = SumRaw(ext.allRecords, ext.schema, ext.queryResult.categoryField,
                ext.queryResult.valueField, {"num", "str"})

\* two source records of one category were added up into one chart record
AggregationSumWitness ==
  /\ ext.queryResult.success
  /\ KnownFieldPair
  /\ Len(ext.allRecords) = 2
  /\ Len(ext.queryResult.data) = 1
  /\ ext.queryResult.data[1].value = 12

(***************************************************************************)
(* Claims on the professional PDF composer                                 *)
(***************************************************************************)
\* C6 as stated: a call whose global timeout has fired returns no document.
DeadlineAborts == pdf.timer = "fired" => pdf.result # "blob"

\* the notifications that are not error reports
Regular(P) == {i \in DOMAIN P : P[i].stage # "error"}

ForcedCaptureRunsAll ==
  (IsCapture(lastOp) /\ lastOp.force)
  => lastOp.effects = {"isChartWidgetAvailable", "getChartElement",
                       "rasterization"}

\* C11: a captureChartAsImage call with forceRefresh never answers from the
\* capture cache: it performs the availability check, then the DOM lookup
\* unless the widget is not available, then the rasterization unless the
\* element is not found; a result it returns with success is a new one, and
\* it replaces the capture-cache entry of the identifier, stamped with the
\* current time.
ForcedCaptureBypassesCache ==
  [][\A id \in Ids :
       (IsCapture(lastOp') /\ lastOp'.id = id /\ lastOp'.force)
       => /\ "isChartWidgetAvailable" \in lastOp'.effects
          /\ "getChartElement" \notin lastOp'.effects
             => /\ lastOp'.returned /\ ~lastOp'.result.success
                /\ lastOp'.result.error \in
                     {WidgetNotFoundMessage(impl)}
                     \cup {CatchMessage(f) : f \in Throwables}
                /\ lastOp'.result.error = WidgetNotFoundMessage(impl)
                   => (getChartWidgetInfo(id) # "chart" \/ impl = "modular")
          /\ ("getChartElement" \in lastOp'.effects
               /\ "rasterization" \notin lastOp'.effects)
             => /\ lastOp'.returned /\ ~lastOp'.result.success
                /\ lastOp'.result.error = ElementNotFoundMessage
                /\ dom[id] = 0
          /\ (lastOp'.returned /\ ~lastOp'.result.success)
             => captureCache' = captureCache
          /\ (lastOp'.returned /\ lastOp'.result.success)
             => /\ lastOp'.result # captureCache[id].result
                /\ "rasterization" \in lastOp'.effects
                /\ captureCache'[id] =
                     [result |-> lastOp'.result, timestamp |-> now']]_vars

\* C11 witness: a forced capture returned a new result although a result
\* stored less than 5000 ms ago was in the cache when it was called
ForcedCaptureBypassesCacheWitness ==
  /\ IsCapture(lastOp) /\ lastOp.force /\ lastOp.cached
  /\ lastOp.returned /\ lastOp.result.success
  /\ captureCache[lastOp.id] = [result |-> lastOp.result, timestamp |-> now]


(***************************************************************************)
(* Claims on the extraction results                                        *)
(***************************************************************************)
UniqueCategories(data) ==
  \A i, j \in DOMAIN data : i # j => data[i].category # data[j].category

\* C12: in every successful extraction result, whichever strategy produced
\* it (query, legend parsing, shadow-DOM legend, data attributes), no two
\* records have the same category.
ExtractionCategoriesUnique ==
  /\ ext.queryResult.success => UniqueCategories(ext.queryResult.data)
  /\ ext.domResult.success => UniqueCategories(ext.domResult.data)
  /\ (ext.pc = "done" /\ ext.result.success)
     => UniqueCategories(ext.result.data)

\* C13: for an identifier that is not registered, extractChartDataComplete
\* returns success=false with an explicit message, consults no data source
\* and returns no data obtained from the DOM.
UnregisteredExtractionFails ==
  (ext.pc = "done" /\ getChartWidgetInfo(ext.id) = "none")
  => /\ ~ext.result.success
     /\ ext.result.error.text # ""
     /\ ext.attempted = {}
     /\ ext.result.data = <<>>


(***************************************************************************)
(* Claims on the widget locator                                            *)
(***************************************************************************)
\* C14: for every registered chart identifier whose element is mounted,
\* getChartElement returns a non-null element; for every identifier that is
\* not registered, getChartWidgetInfo returns null and getChartElement
\* returns null.
LocatorFollowsRegistry ==
  /\ (lastOp.op = "getChartElement" /\ WidgetRegistry[lastOp.id] = "chart"
      /\ dom[lastOp.id] # 0)
     => lastOp.element # 0
  /\ (lastOp.op = "getChartWidgetInfo" /\ lastOp.returned
      /\ WidgetRegistry[lastOp.id] = "none")
     => lastOp.info = "none"
  /\ (lastOp.op = "getChartElement" /\ WidgetRegistry[lastOp.id] = "none")
     => lastOp.element = 0


\* a precedes-or-equals b: numerically when both are numbers, else by the
\* comparison of their strings
PrecedesOrEquals(a, b) ==
  IF a.t = "num" /\ b.t = "num" THEN a.n <= b.n
  ELSE LocaleCompare(String(a), String(b)) <= 0

ComposerDrawsPlaceholder ==
  (/\ doc.pc = "done" /\ doc.composer \in {"fullLegend", "complete"}
   /\ doc.capture = "failure" /\ doc.data = "records"
   /\ doc.result = "blob")
  => doc.placeholder /\ ~doc.image

CeilDiv(n, c) == CHOOSE q \in 0..n : q * c >= n /\ (q - 1) * c < n

ItemsInColumn(col) ==
  Cardinality({k \in DOMAIN layout.cells : layout.cells[k].columnIndex = col})

RECURSIVE SumItems(_)
SumItems(col) == IF col < 0 THEN 0 ELSE ItemsInColumn(col) + SumItems(col - 1)

\* C17: with N items and C >= 1 columns, item i is drawn in column
\* floor(i / ceil(N/C)) at row i mod ceil(N/C); no column holds more than
\* ceil(N/C) items, every column index is below C, no two items share a cell
\* and, the loop done, the items of all columns sum to N.
LegendDistribution ==
  layout.pc # "idle"
  => LET N == layout.n
         C == layout.legendColumns
         cells == layout.cells
     IN /\ \A k \in DOMAIN cells :
             /\ cells[k].columnIndex = (k - 1) \div CeilDiv(N, C)
             /\ cells[k].rowIndex = (k - 1) % CeilDiv(N, C)
             /\ cells[k].columnIndex \in 0..(C - 1)
        /\ \A col \in 0..(C - 1) : ItemsInColumn(col) <= CeilDiv(N, C)
        /\ \A j, k \in DOMAIN cells : j # k => cells[j] # cells[k]
        /\ layout.pc = "done"
           => Len(cells) = N /\ SumItems(C - 1) = N

\* C17 witness: seven items were drawn in four columns, the last column
\* holding one item
LegendDistributionWitness ==
  /\ layout.pc = "done" /\ layout.n = 7 /\ layout.legendColumns = 4
  /\ ItemsInColumn(3) = 1 /\ ItemsInColumn(0) = 2

\* C19: the pool never holds more than 3 canvases, and the canvas that
\* getPooledCanvas hands out is blank, whatever it held when it entered the
\* pool.
PoolBoundedAndCleared ==
  /\ [](Len(canvasPool) <= 3)
  /\ [][lastOp'.op = "getPooledCanvas"
         => /\ held' = Append(held, held'[Len(held')])
            /\ held'[Len(held')].pixels = "blank"
            /\ Len(canvasPool) > 0
               => /\ canvasPool' = SubSeq(canvasPool, 1, Len(canvasPool) - 1)
                  /\ held'[Len(held')].context =
                       canvasPool[Len(canvasPool)].context]_vars

\* C19 witness: the canvas handed out last came from the pool, where it
\* held a drawing
PoolBoundedAndClearedWitness ==
  /\ lastOp.op = "getPooledCanvas" /\ lastOp.popped = "drawn"
  /\ held[Len(held)].pixels = "blank"

Holds(errors, message) == \E k \in DOMAIN errors : errors[k] = message

Times(errors, message) ==
  Cardinality({k \in DOMAIN errors : errors[k] = message})

TemplateInputUntouched ==
  template.called
  => /\ template.after = template.before
     /\ (template.before.missing \/ template.chartElement = "none")
        => /\ template.returned = "input"
           /\ template.result = template.before
     /\ ~(template.before.missing \/ template.chartElement = "none")
        => /\ template.returned = "new"
           /\ template.result.extraElements =
                Append(template.before.extraElements, template.chartElement)
           /\ template.result.format = template.before.format

\* the techniques of htmlToCanvas in the order of the code
Cascade == <<"canvas", "html2canvas", "svg">>

IsPrefix(a, b) == Len(a) <= Len(b) /\ SubSeq(b, 1, Len(a)) = a

\* C22: within one capture the techniques run in the order canvas reuse,
\* full rasterization, SVG fallback; full rasterization is invoked only by a
\* call that canvas reuse left without output, and a capture returns the
\* failure of a null canvas only after all three techniques were tried.
CascadeExhaustedBeforeNull ==
  lastOp.op \in {"captureChartAsImage", "captureResume"}
  => /\ IsPrefix(lastOp.techniques, Cascade)
     /\ (IsCapture(lastOp) /\ Len(lastOp.techniques) >= 2)
        => ~lastOp.returned /\ lastOp.result = NoResult
     /\ (lastOp.returned
         /\ lastOp.result = FailureResult(CaptureFailedMessage(impl)))
        => lastOp.techniques = Cascade

\* the capture call that has just returned (at once or after a suspension)
CaptureReturned(op) ==
  op.op \in {"captureChartAsImage", "captureResume"} /\ op.returned

\* every entry of the capture cache is a successful result with a dataUrl
CacheHoldsSuccesses(cc) ==
  \A w \in Ids :
    cc[w] # NoCaptureEntry
    => cc[w].result.success /\ cc[w].result.dataUrl # 0
       /\ cc[w].result.error = ""

\* C23: the capture cache only holds successful results, each with a
\* dataUrl; the result of a capture that succeeds is held under the
\* identifier of that capture and under no other; a capture that fails
\* leaves the capture cache as it was.
CaptureCacheOnlySuccesses ==
  [][/\ CacheHoldsSuccesses(captureCache')
     /\ (CaptureReturned(lastOp') /\ lastOp'.result.success)
        => /\ captureCache'[lastOp'.id].result = lastOp'.result
           /\ \A w \in Ids \ {lastOp'.id} :
                captureCache'[w].result # lastOp'.result
     /\ (CaptureReturned(lastOp') /\ ~lastOp'.result.success)
        => captureCache' = captureCache]_vars

\* C23 witness: a capture of an identifier that has a cache entry went
\* through html2canvas and has just failed on toDataURL, and the entry, a
\* successful result, is still there
CaptureCacheOnlySuccessesWitness ==
  /\ lastOp.op = "captureResume" /\ ~lastOp.result.success
  /\ lastOp.result.error = "SecurityError"
  /\ captureCache[lastOp.id].result.success
  /\ captureCache[lastOp.id].result.dataUrl = 1

\* C24: a capture whose identifier was invalidated (or all caches cleared)
\* while it was suspended in rasterization does not put its result in the
\* capture cache when it resumes, so that no later call is served a result
\* whose rasterization started before the invalidation.
InvalidationDiscardsInflight ==
  (lastOp.op = "captureResume" /\ lastOp.stale /\ lastOp.result.success)
  => captureCache[lastOp.id].result # lastOp.result

\* C25: a successful result that captureChartAsImage returns for the options
\* of the call was rasterized with these options, also when it comes from
\* the capture cache.
ResultMatchesOptions ==
  (CaptureReturned(lastOp) /\ lastOp.result.success)
  => lastOp.result.options = lastOp.options

\* the cache c with the entries of all identifiers but id removed
Only(c, id, none) == [w \in Ids |-> IF w = id THEN c[w] ELSE none]

\* the synchronous part of a capture of id does and returns the same whether
\* or not the caches hold entries of other identifiers, and leaves these
\* entries as they are
AloneAgrees(id, force, sc, ec, cc, pool, d, t, serial) ==
  LET with == CaptureSync(impl, id, "1200x800", force, sc.fault, sc.found,
                          sc.urlFault, ec, cc, pool, d, t, serial)
      alone == CaptureSync(impl, id, "1200x800", force, sc.fault, sc.found,
                           sc.urlFault, Only(ec, id, NoElementEntry),
                           Only(cc, id, NoCaptureEntry), pool, d, t, serial)
  IN /\ with.kind = alone.kind /\ with.result = alone.result
     /\ with.element = alone.element /\ with.effects = alone.effects
     /\ with.techniques = alone.techniques
     /\ with.ec[id] = alone.ec[id] /\ with.cc[id] = alone.cc[id]
     /\ \A w \in Ids \ {id} : with.ec[w] = ec[w] /\ with.cc[w] = cc[w]

\* C26: calls of captureChartAsImage for different identifiers that interleave
\* at their suspension points are independent: a step of a call for one
\* identifier leaves the element-cache and capture-cache entries of every
\* other identifier as they were, and in every state that the interleavings
\* reach a call does and returns what it would with the entries of the other
\* identifiers absent.
InterleavedCallsIndependent ==
  [][/\ lastOp'.op \in {"captureChartAsImage", "captureResume", "svgFallback"}
        => \A w \in Ids \ {lastOp'.id} :
             /\ chartElementCache'[w] = chartElementCache[w]
             /\ captureCache'[w] = captureCache[w]
     /\ \A id \in ChartIds, force \in BOOLEAN, sc \in InterleaveScenarios :
          AloneAgrees(id, force, sc, chartElementCache', captureCache',
                      canvasPool', dom', now', nextSerial')]_vars

\* C26 witness: a capture of w2 that went through html2canvas has just
\* stored its result while a capture of w1 is suspended and w1 has entries
\* in both caches
InterleavedCallsIndependentWitness ==
  /\ lastOp.op = "captureResume" /\ lastOp.id = "w2"
  /\ lastOp.result.success
  /\ captureCache["w2"].result = lastOp.result
  /\ \E s \in CallSlots : calls[s].pc = "html2canvas" /\ calls[s].id = "w1"
  /\ chartElementCache["w1"].g # 0
  /\ captureCache["w1"].result.success

\* the number of items that a loop may process between two yields
ChunkOf(l) ==
  IF l.kind = "executeInChunks" THEN l.chunkSize ELSE LEGEND_CHUNK_SIZE

\* C27: in every loop over items (the legend of the professional layout,
\* the legend of generateChartPdfWithFullLegend, executeInChunks) at most one
\* chunk of items is processed between two consecutive yields to the host:
\* 15 legend items, or chunkSize items in executeInChunks.
LoopYieldsEveryChunk ==
  loop.pc # "idle" => loop.sinceYield <= ChunkOf(loop)

\* C28: the canvas that a capture obtained with getPooledCanvas is given back
\* with returnCanvasToPool once its image is serialized: when the capture has
\* returned its image the pool holds a canvas, and the pool is not smaller
\* than it was before the step.
PooledCanvasReturned ==
  [][(CaptureReturned(lastOp') /\ lastOp'.pooled /\ lastOp'.result.success)
     => /\ Len(canvasPool') >= 1
        /\ Len(canvasPool') >= Len(canvasPool)]_vars

\* the positions of the error reports among the notifications P
ErrorReports(P) == {i \in DOMAIN P : P[i].stage = "error"}

\* C29: within one generateAndDownloadProfessionalChartPdf call the error
\* stage (percentage -1) is notified at most once and is the last
\* notification; a call that succeeds notifies no error stage.
ErrorStageOnce ==
  pdf.wrapper
  => LET P == pdf.progress
     IN /\ Cardinality(ErrorReports(P)) <= 1
        /\ \A i \in ErrorReports(P) : i = Len(P) /\ P[i].percent = -1
        /\ (pdf.pc = "done" /\ pdf.downloaded = "true")
           => ErrorReports(P) = {}

====
